---- MODULE Spec2Model ----
(***************************************************************************)
(* A model of the fluxion_ai workflow engine: AbstractWorkflow (the graph  *)
(* of AgentNodes, add_node, dependency validation, execution order,        *)
(* execute) and AgentNode (input resolution and the call of the wrapped    *)
(* agent); of the tool-call loop of LLMChatAgent and the state of          *)
(* PersistentLLMChatAgent; and of ToolRegistry and Tool.                   *)
(*                                                                         *)
(* Python dicts are insertion ordered, and the order decides which error   *)
(* is raised first and the order of the depth-first walks, so a dict that  *)
(* the code iterates is a sequence here: _nodes is a sequence of           *)
(* [name, inputs] and a node's inputs is a sequence of <<key, source>>     *)
(* pairs with distinct keys.  A dict that is only looked up by key         *)
(* (results, the workflow inputs, the kwargs) is a function.               *)
(***************************************************************************)
EXTENDS Integers, Sequences, FiniteSets, TLC

VARIABLES
    nodes,      \* AbstractWorkflow._nodes, in insertion order
    mutations,  \* how many times a node's inputs were reassigned directly
    pc,         \* position of the caller: "idle", "running" (inside execute's loop),
                \* "done" (a call has returned or raised and the caller looks at it)
    winputs,    \* the inputs argument of the running execute
    order,      \* execution_order of the running execute
    idx,        \* position of execute's loop in order
    results,    \* the results dict of the running execute
    executed,   \* log of the node.execute calls of the running execute
    returned,   \* what execute gave back to its caller
    outcome,    \* the call the caller is in or looks at, and the error it raised, if any
    nstate,     \* a single AgentNode.execute call on its own: its arguments and its outcome
    chatAgent,  \* an LLMChatAgent or PersistentLLMChatAgent: its settings and its state
    chat,       \* the running execute of chatAgent: the caller's history, the depth, the
                \* tool calls still to handle, and what was sent to and received from the backend
    registry,   \* ToolRegistry._registry: qualified name -> Tool
    toolOut,    \* the last call on the ToolRegistry and how it ended
    agentRegistry, \* AgentRegistry._registry: name -> agent instance
    agentOut,   \* the last call on the AgentRegistry and how it ended
    callAgent,  \* a call_agent in progress or ended: its arguments, retries, and its outcome
    delegation, \* a DelegationAgent or CoordinationAgent: its delegation registry, and its
                \* decide_and_delegate / coordinate_agents call in progress or ended
    tracker,    \* a WorkflowProgressTracker: the status of each node, and its last call
    plan,       \* a PlanningModule.execute_plan in progress or ended
    runs        \* the calls of workflow.execute that run side by side on one workflow
                \* object: the locals of each, and the values its nodes produced

agentVars == <<agentRegistry, agentOut, callAgent, delegation, tracker, plan, runs>>

vars == <<nodes, mutations, pc, winputs, order, idx, results, executed, returned, outcome, nstate,
          chatAgent, chat, registry, toolOut, agentVars>>

-----------------------------------------------------------------------------
(* Bounds and the small sets the inputs are drawn from *)

MaxInputs == 2
MaxMutations == 1

NodeNames == {"A", "B", "C"}
WorkflowInput == "workflow_input"
Params == {"messages", "extra"}
Sources == NodeNames \cup {WorkflowInput}

EmptyMap == [k \in {} |-> <<>>]

\* dicts param -> source_node_name, as insertion ordered sequences of pairs with distinct keys
InputMaps ==
    { s \in UNION { [1..n -> Params \X Sources] : n \in 0..MaxInputs } :
        \A i, j \in DOMAIN s : i # j => s[i][1] # s[j][1] }

\* the inputs argument of execute: None / {} or a dict holding a seed value
WorkflowInputs == { EmptyMap, [k \in {"messages"} |-> <<"x">>], [k \in {"messages", "extra"} |-> <<"x">>] }

-----------------------------------------------------------------------------
(* Errors *)

Err(kind, names) == [kind |-> kind, names |-> names]
NoError == Err("none", {})
Raise(e) == [raised |-> TRUE, err |-> e, value |-> <<>>]
Return(v) == [raised |-> FALSE, err |-> NoError, value |-> v]

-----------------------------------------------------------------------------
(* The graph *)

Names(ns) == { ns[i].name : i \in DOMAIN ns }
NodeOf(ns, name) == ns[CHOOSE i \in DOMAIN ns : ns[i].name = name]
SourcesOf(inputs) == { inputs[i][2] : i \in DOMAIN inputs }

\* AgentNode.get_parents: the source nodes in the order of inputs.values();
\* the first source that is not a key of nodes_list raises
GetParents(node, ns) ==
    LET missing == { i \in DOMAIN node.inputs : node.inputs[i][2] \notin Names(ns) }
    IN  IF missing # {}
        THEN LET i == CHOOSE m \in missing : \A k \in missing : m <= k
             IN  Raise(Err("ParentMissing", {node.inputs[i][2], node.name}))
        ELSE Return([i \in DOMAIN node.inputs |-> node.inputs[i][2]])

\* AgentNode.get_dependencies: the transitive parents.  The recursion has no
\* visited set: on a chain of parents that runs into a cycle it never returns,
\* which Python ends with RecursionError.  A chain longer than the number of
\* nodes repeats a node, and the walk is deterministic, so it repeats forever.
\* Only the keys of the returned dict are used: the value is their set.
RECURSIVE GetDependencies(_, _, _), DepsOfParents(_, _, _, _, _)
GetDependencies(node, ns, depth) ==
    IF depth > Len(ns)
    THEN Raise(Err("RecursionError", {}))
    ELSE LET ps == GetParents(node, ns)
         IN  IF ps.raised THEN ps ELSE DepsOfParents(ps.value, 1, ns, depth, {})

DepsOfParents(ps, i, ns, depth, acc) ==
    IF i > Len(ps)
    THEN Return(acc)
    ELSE LET sub == GetDependencies(NodeOf(ns, ps[i]), ns, depth + 1)
         IN  IF sub.raised
             THEN sub
             ELSE DepsOfParents(ps, i + 1, ns, depth, acc \cup {ps[i]} \cup sub.value)

\* add_node without the duplicate check: the dict assignment replaces the node
AddNodeResultOverwrites(ns, name, inputs) ==
    LET deps == GetDependencies([name |-> name, inputs |-> inputs], ns, 0)
    IN  IF deps.raised
        THEN deps
        ELSE IF name \in Names(ns)
             THEN Return([i \in DOMAIN ns |->
                            IF ns[i].name = name THEN [name |-> name, inputs |-> inputs] ELSE ns[i]])
             ELSE Return(Append(ns, [name |-> name, inputs |-> inputs]))

\* add_node without the walk over the dependencies
AddNodeResultNoDeps(ns, name, inputs) ==
    IF name \in Names(ns)
    THEN Raise(Err("Duplicate", {name}))
    ELSE Return(Append(ns, [name |-> name, inputs |-> inputs]))

\* AbstractWorkflow.add_node: the node map after the call, or the error
AddNodeResult(ns, name, inputs) ==
    IF name \in Names(ns)
    THEN Raise(Err("Duplicate", {name}))
    ELSE LET deps == GetDependencies([name |-> name, inputs |-> inputs], ns, 0)
         IN  IF deps.raised
             THEN deps
             ELSE IF \E d \in deps.value : d \notin Names(ns)
                  THEN Raise(Err("DependencyMissing", {name}))
                  ELSE Return(Append(ns, [name |-> name, inputs |-> inputs]))

\* AbstractWorkflow._validate_dependencies.visit: st is the closure's state
\* [visited, stack, err]; an error once raised ends the whole walk
RECURSIVE Visit(_, _, _), VisitAll(_, _, _, _)
\* visit without the recursion stack: a node met again is taken as done
VisitNoStack(ns, st, n) ==
    IF st.err # NoError \/ n \in st.visited
    THEN st
    ELSE LET st1 == [st EXCEPT !.visited = @ \cup {n}]
         IN  IF n \notin Names(ns)
             THEN [st1 EXCEPT !.err = Err("NodeMissing", {n})]
             ELSE LET ps == GetParents(NodeOf(ns, n), ns)
                  IN  IF ps.raised
                      THEN [st1 EXCEPT !.err = ps.err]
                      ELSE VisitAll(ns, st1, ps.value, 1)

\* visit with one set for both tests: any node met again is taken for a cycle
VisitAgainIsCycle(ns, st, n) ==
    IF st.err # NoError THEN st
    ELSE IF n \in st.visited THEN [st EXCEPT !.err = Err("Circular", {n})]
    ELSE LET st1 == [st EXCEPT !.stack = @ \cup {n}, !.visited = @ \cup {n}]
         IN  IF n \notin Names(ns)
             THEN [st1 EXCEPT !.err = Err("NodeMissing", {n})]
             ELSE LET ps == GetParents(NodeOf(ns, n), ns)
                  IN  IF ps.raised
                      THEN [st1 EXCEPT !.err = ps.err]
                      ELSE LET st2 == VisitAll(ns, st1, ps.value, 1)
                           IN  IF st2.err # NoError
                               THEN st2
                               ELSE [st2 EXCEPT !.stack = @ \ {n}]

Visit(ns, st, n) ==
    IF st.err # NoError THEN st
    ELSE IF n \in st.stack THEN [st EXCEPT !.err = Err("Circular", {n})]
    ELSE IF n \in st.visited THEN st
    ELSE LET st1 == [st EXCEPT !.stack = @ \cup {n}, !.visited = @ \cup {n}]
         IN  IF n \notin Names(ns)
             THEN [st1 EXCEPT !.err = Err("NodeMissing", {n})]
             ELSE LET ps == GetParents(NodeOf(ns, n), ns)
                  IN  IF ps.raised
                      THEN [st1 EXCEPT !.err = ps.err]
                      ELSE LET st2 == VisitAll(ns, st1, ps.value, 1)
                           IN  IF st2.err # NoError
                               THEN st2
                               ELSE [st2 EXCEPT !.stack = @ \ {n}]

VisitAll(ns, st, seq, i) ==
    IF i > Len(seq) \/ st.err # NoError
    THEN st
    ELSE VisitAll(ns, Visit(ns, st, seq[i]), seq, i + 1)

\* the first <<node, input>> whose source is no key of the node map (lines 149-153)
DanglingInputs(ns, allowed) ==
    { p \in { <<i, j>> : i \in DOMAIN ns, j \in 1..MaxInputs } :
        /\ p[2] \in DOMAIN ns[p[1]].inputs
        /\ ns[p[1]].inputs[p[2]][2] \notin Names(ns) \cup allowed }

FirstPair(ps) ==
    CHOOSE p \in ps : \A q \in ps : p[1] < q[1] \/ (p[1] = q[1] /\ p[2] <= q[2])

\* a _validate_dependencies that accepts every graph
ValidateDependenciesAccepts(ns) == NoError

\* AbstractWorkflow._validate_dependencies: the error it raises, or NoError
ValidateDependencies(ns) ==
    IF Len(ns) = 0
    THEN Err("Empty", {})
    ELSE LET st == VisitAll(ns, [visited |-> {}, stack |-> {}, err |-> NoError],
                            [i \in DOMAIN ns |-> ns[i].name], 1)
         IN  IF st.err # NoError
             THEN st.err
             ELSE IF DanglingInputs(ns, {}) # {}
                  THEN LET p == FirstPair(DanglingInputs(ns, {}))
                       IN  Err("InputMissing", {ns[p[1]].inputs[p[2]][2]})
                  ELSE NoError

\* AbstractWorkflow._validate_inputs_and_outputs: the error it raises, or NoError
ValidateInputsAndOutputs(ns) ==
    IF DanglingInputs(ns, {WorkflowInput}) # {}
    THEN LET p == FirstPair(DanglingInputs(ns, {WorkflowInput}))
         IN  Err("InputMissing", {ns[p[1]].inputs[p[2]][2]})
    ELSE NoError

\* AbstractWorkflow.determine_execution_order.dfs: st is [visited, order, err]
RECURSIVE Dfs(_, _, _), DfsAll(_, _, _, _)
\* dfs that appends the node before it walks its parents
DfsPreOrder(ns, st, n) ==
    IF st.err # NoError \/ n \in st.visited
    THEN st
    ELSE LET st1 == [st EXCEPT !.visited = @ \cup {n}, !.order = Append(@, n)]
             ps == GetParents(NodeOf(ns, n), ns)
         IN  IF ps.raised
             THEN [st1 EXCEPT !.err = ps.err]
             ELSE DfsAll(ns, st1, ps.value, 1)

Dfs(ns, st, n) ==
    IF st.err # NoError \/ n \in st.visited
    THEN st
    ELSE LET st1 == [st EXCEPT !.visited = @ \cup {n}]
             ps == GetParents(NodeOf(ns, n), ns)
         IN  IF ps.raised
             THEN [st1 EXCEPT !.err = ps.err]
             ELSE LET st2 == DfsAll(ns, st1, ps.value, 1)
                  IN  IF st2.err # NoError
                      THEN st2
                      ELSE [st2 EXCEPT !.order = Append(@, n)]

DfsAll(ns, st, seq, i) ==
    IF i > Len(seq) \/ st.err # NoError
    THEN st
    ELSE DfsAll(ns, Dfs(ns, st, seq[i]), seq, i + 1)

\* AbstractWorkflow.determine_execution_order: the list, or the error
DetermineExecutionOrder(ns) ==
    IF Len(ns) = 0
    THEN Raise(Err("Empty", {}))
    ELSE LET st == DfsAll(ns, [visited |-> {}, order |-> <<>>, err |-> NoError],
                          [i \in DOMAIN ns |-> ns[i].name], 1)
         IN  IF st.err # NoError THEN Raise(st.err) ELSE Return(st.order)

-----------------------------------------------------------------------------
(* AgentNode.execute *)

\* the signature of an agent's execute: its parameters in order, and those without a default
MockAgentSig == [params |-> <<"messages">>, required |-> {"messages"}]
Signatures ==
    { MockAgentSig,
      [params |-> <<"messages", "extra">>, required |-> {"messages", "extra"}],
      [params |-> <<"messages", "extra">>, required |-> {"messages"}],
      [params |-> <<>>, required |-> {}] }

\* what the agent does when called: it returns, or raises an error of its own
\* whose message may or may not mention the node.  An agent that returns has
\* either worked on a copy of its messages (the agents of the tests) or has
\* appended to the very object it was given and returned that object.
AgentOutcomes ==
    { [fails |-> FALSE, named |-> FALSE, inplace |-> FALSE],
      [fails |-> FALSE, named |-> FALSE, inplace |-> TRUE],
      [fails |-> TRUE, named |-> FALSE, inplace |-> FALSE],
      [fails |-> TRUE, named |-> TRUE, inplace |-> FALSE] }

\* the agents of the tests: a copy of the messages received with a mark of the agent appended
AgentExecute(name, kwargs) ==
    IF "messages" \in DOMAIN kwargs THEN Append(kwargs["messages"], name) ELSE <<name>>

\* _resolve_inputs that leaves out the inputs whose source has no result
ResolveInputsLenient(inputs, res) ==
    LET present == { i \in DOMAIN inputs : inputs[i][2] \in DOMAIN res }
    IN  Return([k \in { inputs[i][1] : i \in present } |->
                   res[inputs[CHOOSE i \in present : inputs[i][1] = k][2]]])

\* AgentNode._resolve_inputs: key -> results[source], KeyError at the first source without a result
ResolveInputs(inputs, res) ==
    LET missing == { i \in DOMAIN inputs : inputs[i][2] \notin DOMAIN res }
    IN  IF missing # {}
        THEN LET i == CHOOSE m \in missing : \A k \in missing : m <= k
             IN  Raise(Err("Unresolved", {inputs[i][2]}))
        ELSE Return([k \in { inputs[i][1] : i \in DOMAIN inputs } |->
                        res[inputs[CHOOSE i \in DOMAIN inputs : inputs[i][1] = k][2]]])

\* the merge {**resolved_inputs, **inputs}: the workflow inputs win
CombineInputsWorkflowWins(resolved, inp) ==
    [k \in DOMAIN resolved \cup DOMAIN inp |->
        IF k \in DOMAIN inp THEN inp[k] ELSE resolved[k]]

\* lines 128-131: the resolved inputs, then the workflow inputs whose key is not resolved
CombineInputs(resolved, inp) ==
    [k \in DOMAIN resolved \cup DOMAIN inp |->
        IF k \in DOMAIN resolved THEN resolved[k] ELSE inp[k]]

\* combined_inputs = resolved_inputs without the deepcopy: the agent is given the
\* stored result of the source of its messages itself
SharedWithAgentNoCopy(node, res) ==
    { node.inputs[i][2] : i \in { j \in DOMAIN node.inputs : node.inputs[j][1] = "messages" } } \cap DOMAIN res

\* lines 128-131: the entries of the results map whose own object, not a copy, is
\* given to the agent as its messages.  deepcopy(resolved_inputs) leaves none.
SharedWithAgent(node, res) == {}

\* the merged inputs passed on whole, whatever the agent's parameters are
FilterInputsAll(combined, sig) == combined

\* line 132: only the keys that are parameters of the agent's execute
FilterInputs(combined, sig) ==
    [k \in { q \in DOMAIN combined : \E i \in DOMAIN sig.params : sig.params[i] = q } |-> combined[k]]

NodeResult(raised, err, called, args, value) ==
    [raised |-> raised, err |-> err, called |-> called, args |-> args, value |-> value]

\* AgentNode.execute
NodeExecute(node, sig, res, inp, agent) ==
    LET resolved == ResolveInputs(node.inputs, res)
    IN  IF resolved.raised
        THEN NodeResult(TRUE, resolved.err, FALSE, EmptyMap, <<>>)
        ELSE LET filtered == FilterInputs(CombineInputs(resolved.value, inp), sig)
                 absent == { i \in DOMAIN sig.params :
                               sig.params[i] \in sig.required /\ sig.params[i] \notin DOMAIN filtered }
             IN  IF absent # {}
                 THEN NodeResult(TRUE, Err("RequiredMissing", {}), FALSE, EmptyMap, <<>>)
                 ELSE IF agent.fails
                      THEN NodeResult(TRUE, Err("AgentError", IF agent.named THEN {node.name} ELSE {}),
                                      TRUE, filtered, <<>>)
                      ELSE NodeResult(FALSE, NoError, TRUE, filtered, AgentExecute(node.name, filtered))

-----------------------------------------------------------------------------
(* The workflow as a state machine *)

None == [ok |-> FALSE, value |-> EmptyMap]
Outcome(op, err) == [op |-> op, err |-> err]
NodeIdle == [phase |-> "none"]

\* no chat agent, no call of it, no tool registry in use
NoChatAgent ==
    [persistent |-> FALSE, sys |-> <<>>, maxDepth |-> 0, maxState |-> 0, state |-> <<>>, added |-> <<>>]
NoResponse == [role |-> "none", content |-> <<>>, tool_calls |-> <<>>]
ChatIdle ==
    [phase |-> "idle", history |-> <<>>, depth |-> 0, pending |-> <<>>, calls |-> 0, sent |-> <<>>,
     response |-> NoResponse, respAt |-> 0, respDepth |-> 0, invoked |-> <<>>, err |-> NoError,
     entry |-> <<>>, stateAtEntry |-> <<>>]
NoToolOut == [op |-> "none"]
NoAgentOut == [op |-> "none"]
CallIdle == [phase |-> "none"]
DelegationIdle == [phase |-> "none"]
TrackerIdle == [phase |-> "none"]
PlanIdle == [phase |-> "none"]
NoRuns == <<>>

\* nothing registered with the AgentRegistry, and no call on the agents, tracker or plan
InitAgentsIdle ==
    /\ agentRegistry = EmptyMap
    /\ agentOut = NoAgentOut
    /\ callAgent = CallIdle
    /\ delegation = DelegationIdle
    /\ tracker = TrackerIdle
    /\ plan = PlanIdle
    /\ runs = NoRuns

Init ==
    /\ nodes = <<>>
    /\ mutations = 0
    /\ pc = "idle"
    /\ winputs = EmptyMap
    /\ order = <<>>
    /\ idx = 1
    /\ results = EmptyMap
    /\ executed = <<>>
    /\ returned = None
    /\ outcome = Outcome("none", NoError)
    /\ nstate = NodeIdle
    /\ chatAgent = NoChatAgent
    /\ chat = ChatIdle
    /\ registry = EmptyMap
    /\ toolOut = NoToolOut
    /\ InitAgentsIdle

\* workflow.add_node(AgentNode(name, agent, inputs))
AddNode(name, inputs) ==
    /\ pc = "idle"
    /\ LET r == AddNodeResult(nodes, name, inputs)
       IN  /\ nodes' = IF r.raised THEN nodes ELSE r.value
           /\ outcome' = Outcome("add_node", r.err)
    /\ pc' = "done"
    /\ UNCHANGED <<mutations, winputs, order, idx, results, executed, returned, nstate,
                 chatAgent, chat, registry, toolOut, agentVars>>

\* node.inputs = {...} on a node that is already in the workflow
SetInputs(name, inputs) ==
    /\ pc = "idle"
    /\ mutations < MaxMutations
    /\ name \in Names(nodes)
    /\ NodeOf(nodes, name).inputs # inputs
    /\ nodes' = [i \in DOMAIN nodes |->
                    IF nodes[i].name = name THEN [nodes[i] EXCEPT !.inputs = inputs] ELSE nodes[i]]
    /\ mutations' = mutations + 1
    /\ UNCHANGED <<pc, winputs, order, idx, results, executed, returned, outcome, nstate,
                 chatAgent, chat, registry, toolOut, agentVars>>

\* execute without its two validation calls
ExecutePrologueNoValidation(ns) == DetermineExecutionOrder(ns).err

\* the first error of execute's lines 208-210, or NoError
ExecutePrologue(ns) ==
    IF ValidateDependencies(ns) # NoError THEN ValidateDependencies(ns)
    ELSE IF ValidateInputsAndOutputs(ns) # NoError THEN ValidateInputsAndOutputs(ns)
    ELSE DetermineExecutionOrder(ns).err

\* workflow.execute(inp) up to the head of its loop
Execute(inp) ==
    /\ pc = "idle"
    /\ LET e == ExecutePrologue(nodes)
       IN  IF e # NoError
           THEN /\ pc' = "done"
                /\ outcome' = Outcome("execute", e)
                /\ order' = <<>>
           ELSE /\ pc' = "running"
                /\ outcome' = Outcome("execute", NoError)
                /\ order' = DetermineExecutionOrder(nodes).value
    /\ winputs' = inp
    /\ idx' = 1
    /\ results' = EmptyMap
    /\ executed' = <<>>
    /\ returned' = None
    /\ UNCHANGED <<nodes, mutations, nstate,
                 chatAgent, chat, registry, toolOut, agentVars>>

\* execute's loop with results rebound to the last value only
ExecNodeForgets(agent) ==
    /\ pc = "running"
    /\ idx <= Len(order)
    /\ LET n == order[idx]
           r == NodeExecute(NodeOf(nodes, n), MockAgentSig, results, winputs, agent)
       IN  /\ executed' = Append(executed, [node |-> n, out |-> r])
           /\ IF r.raised
              THEN /\ pc' = "done"
                   /\ outcome' = Outcome("execute", r.err)
                   /\ UNCHANGED <<results, idx>>
              ELSE /\ results' = (n :> r.value)
                   /\ idx' = idx + 1
                   /\ UNCHANGED <<pc, outcome>>
    /\ UNCHANGED <<nodes, mutations, winputs, order, returned, nstate,
                 chatAgent, chat, registry, toolOut, agentVars>>

\* execute's loop with the node's error caught and the loop going on
ExecNodeSwallows(agent) ==
    /\ pc = "running"
    /\ idx <= Len(order)
    /\ LET n == order[idx]
           r == NodeExecute(NodeOf(nodes, n), MockAgentSig, results, winputs, agent)
       IN  /\ executed' = Append(executed, [node |-> n, out |-> r])
           /\ results' = IF r.raised THEN results ELSE (n :> r.value) @@ results
           /\ idx' = idx + 1
    /\ UNCHANGED <<nodes, mutations, pc, outcome, winputs, order, returned, nstate,
                 chatAgent, chat, registry, toolOut, agentVars>>

\* one pass of execute's loop: results[node_name] = node.execute(results, inputs).
\* An agent that works in place changes every stored result it shares with the
\* workflow: the object it appended to is the object it returns.
ExecNode(agent) ==
    /\ pc = "running"
    /\ idx <= Len(order)
    /\ LET n == order[idx]
           r == NodeExecute(NodeOf(nodes, n), MockAgentSig, results, winputs, agent)
           shared == IF agent.inplace THEN SharedWithAgent(NodeOf(nodes, n), results) ELSE {}
       IN  /\ executed' = Append(executed, [node |-> n, out |-> r])
           /\ IF r.raised
              THEN /\ pc' = "done"
                   /\ outcome' = Outcome("execute", r.err)
                   /\ UNCHANGED <<results, idx>>
              ELSE /\ results' = (n :> r.value) @@
                                 [s \in DOMAIN results |-> IF s \in shared THEN r.value ELSE results[s]]
                   /\ idx' = idx + 1
                   /\ UNCHANGED <<pc, outcome>>
    /\ UNCHANGED <<nodes, mutations, winputs, order, returned, nstate,
                 chatAgent, chat, registry, toolOut, agentVars>>

\* the loop is over: return results
ExecReturn ==
    /\ pc = "running"
    /\ idx > Len(order)
    /\ pc' = "done"
    /\ returned' = [ok |-> TRUE, value |-> results]
    /\ UNCHANGED <<nodes, mutations, winputs, order, idx, results, executed, outcome, nstate,
                 chatAgent, chat, registry, toolOut, agentVars>>

\* the caller goes on; the locals of the finished call are gone
Finish ==
    /\ pc = "done"
    /\ pc' = "idle"
    /\ winputs' = EmptyMap
    /\ order' = <<>>
    /\ idx' = 1
    /\ results' = EmptyMap
    /\ executed' = <<>>
    /\ returned' = None
    /\ outcome' = Outcome("none", NoError)
    /\ UNCHANGED <<nodes, mutations, nstate,
                 chatAgent, chat, registry, toolOut, agentVars>>

Next ==
    \/ \E name \in NodeNames, inputs \in InputMaps : AddNode(name, inputs)
    \/ \E name \in NodeNames, inputs \in InputMaps : SetInputs(name, inputs)
    \/ \E inp \in WorkflowInputs : Execute(inp)
    \/ \E agent \in AgentOutcomes : ExecNode(agent)
    \/ ExecReturn
    \/ Finish

Spec == Init /\ [][Next]_vars

-----------------------------------------------------------------------------
(* One AgentNode.execute call on its own, with any results map *)

ResultMaps == { [n \in S |-> <<n>>] : S \in SUBSET NodeNames }
NoOut == NodeResult(FALSE, NoError, FALSE, EmptyMap, <<>>)

InitNode ==
    /\ nodes = <<>>
    /\ mutations = 0
    /\ pc = "idle"
    /\ winputs = EmptyMap
    /\ order = <<>>
    /\ idx = 1
    /\ results = EmptyMap
    /\ executed = <<>>
    /\ returned = None
    /\ outcome = Outcome("none", NoError)
    /\ nstate \in { [phase |-> "call", node |-> [name |-> "N", inputs |-> i], sig |-> g,
                     results |-> r, winputs |-> w, out |-> NoOut] :
                    i \in InputMaps, g \in Signatures, r \in ResultMaps, w \in WorkflowInputs }
    /\ chatAgent = NoChatAgent
    /\ chat = ChatIdle
    /\ registry = EmptyMap
    /\ toolOut = NoToolOut
    /\ InitAgentsIdle

\* node.execute(results, inputs)
NodeCall(agent) ==
    /\ nstate.phase = "call"
    /\ nstate' = [nstate EXCEPT
                    !.phase = "done",
                    !.out = NodeExecute(nstate.node, nstate.sig, nstate.results, nstate.winputs, agent)]
    /\ UNCHANGED <<nodes, mutations, pc, winputs, order, idx, results, executed, returned, outcome,
                 chatAgent, chat, registry, toolOut, agentVars>>

NextNode == \E agent \in AgentOutcomes : NodeCall(agent)

SpecNode == InitNode /\ [][NextNode]_vars

-----------------------------------------------------------------------------
(* LLMChatAgent and PersistentLLMChatAgent                                  *)
(*                                                                         *)
(* A MessageHistory is a sequence of messages.  The content of a message   *)
(* is a sequence of words, <<>> being the empty string; tool_calls is the  *)
(* sequence of the names of the tools called, <<>> when there are none.    *)

MaxToolCallDepth == 1
MaxHistory == 2
MaxStateSize == 2
MaxStateLog == 1

Message(role, content, tool_calls) == [role |-> role, content |-> content, tool_calls |-> tool_calls]

\* the values of system_instructions: the default "" and a text
SystemInstructions == { <<>>, <<"sys">> }

\* the messages of the histories that callers pass in
InputMessages == { Message("user", <<"u">>, <<>>), Message("system", <<"sys">>, <<>>) }

RECURSIVE SeqsUpTo(_, _)
SeqsUpTo(S, n) ==
    IF n = 0 THEN { <<>> }
    ELSE LET shorter == SeqsUpTo(S, n - 1)
         IN  shorter \cup { Append(q, x) : q \in { r \in shorter : Len(r) = n - 1 }, x \in S }

InputHistories == SeqsUpTo(InputMessages, MaxHistory)

\* the tool_calls of a backend response
ToolCallLists == { <<>>, <<"t1">>, <<"t1", "t2">>, <<"t2", "t1">> }

\* what the backend does with a request: it raises, or answers with a message
\* a response that calls tools has the empty content, as those of the tests have
Responses == { Message("assistant", IF tc = <<>> THEN <<"a">> ELSE <<>>, tc) : tc \in ToolCallLists }
BackendAnswers ==
    { [raises |-> TRUE, message |-> Message("none", <<>>, <<>>)] } \cup
    { [raises |-> FALSE, message |-> m] : m \in Responses }

\* how tool_registry.invoke_tool_call ends: it returns a value that json.dumps
\* accepts, it returns a value that json.dumps rejects, or it raises
Raising == { "ValueError", "TypeError", "Exception" }
ToolInvocations == { "value", "opaque" } \cup Raising

\* construct_llm_inputs: the system message, when there are instructions, then
\* every message of the history; ValueError on an empty history
ConstructLLMInputs(sys, messages) ==
    IF messages = <<>> THEN Raise(Err("InvalidMessages", {}))
    ELSE Return((IF sys # <<>> THEN << Message("system", sys, <<>>) >> ELSE <<>>) \o messages)

\* the guard of the recursion with the depth limit itself still recursing
MayRecurseAtLimit(depth, max) == depth <= max

\* the guard of the recursion letting one more level through
MayRecurseBeyond(depth, max) == depth < max + 2

\* line 222: if depth < self.max_tool_call_depth
MayRecurse(depth, max) == depth < max

\* lines 223-224: the first message goes when its content is the system instructions
StripSystem(sys, messages) ==
    IF messages[1].content = sys THEN Tail(messages) ELSE messages

\* _handle_tool_call without its except clauses
HandleToolCallUncaught(name, inv) ==
    IF inv \in Raising
    THEN [raised |-> TRUE, result |-> <<>>, errors |-> <<name, inv>>]
    ELSE [raised |-> FALSE, result |-> <<name, inv>>, errors |-> <<>>]

\* _handle_tool_call: the value of the call, or the errors of a call that raised
HandleToolCall(name, inv) ==
    IF inv \in Raising
    THEN [raised |-> FALSE, result |-> <<>>, errors |-> <<name, inv>>]
    ELSE [raised |-> FALSE, result |-> <<name, inv>>, errors |-> <<>>]

\* lines 218-221: the tool message of one handled call; json.dumps raises
\* TypeError on a value it cannot serialise
ToolMessage(handled) ==
    IF handled.errors # <<>> THEN Return(Message("tool", handled.errors, <<>>))
    ELSE IF handled.result[2] = "opaque" THEN Raise(Err("NotSerializable", {}))
    ELSE Return(Message("tool", handled.result, <<>>))

LastN(s, n) == IF Len(s) <= n THEN s ELSE SubSeq(s, Len(s) - n + 1, Len(s))

\* update_state that keeps the oldest messages
UpdateStateKeepsOldest(state, messages, n) ==
    LET s == state \o messages
    IN  IF n # 0 THEN SubSeq(s, 1, IF Len(s) <= n THEN Len(s) ELSE n) ELSE s

\* update_state: extend, then keep the last max_state_size messages; None is 0
UpdateState(state, messages, n) ==
    LET s == state \o messages
    IN  IF n # 0 THEN LastN(s, n) ELSE s

workflowVars == <<nodes, mutations, pc, winputs, order, idx, results, executed, returned, outcome, nstate>>

\* agent.execute(messages) by a caller, a new top-level call at depth 0; entry and
\* stateAtEntry keep what the history and the agent's state were at that time
ChatCall(h) ==
    /\ chat.phase = "idle"
    /\ Len(chatAgent.added) <= MaxStateLog
    /\ chat' = [ChatIdle EXCEPT !.phase = "execute", !.history = h, !.entry = h,
                                !.stateAtEntry = chatAgent.state]
    /\ UNCHANGED <<workflowVars, chatAgent, registry, toolOut, agentVars>>

\* execute from its first line to the return of the backend: the state update of
\* the persistent agent, construct_llm_inputs, llm_module.execute, the append of
\* the response, and the return of _execute_tool_calls when there is no tool call
LLMCall(answer) ==
    /\ chat.phase = "execute"
    /\ LET p == chatAgent.persistent
           resp == answer.message
           state1 == IF p THEN UpdateState(chatAgent.state, chat.history, chatAgent.maxState)
                     ELSE chatAgent.state
           added1 == IF p THEN chatAgent.added \o chat.history ELSE chatAgent.added
           inputs == ConstructLLMInputs(chatAgent.sys, IF p THEN state1 ELSE chat.history)
       IN  IF inputs.raised
           THEN /\ chat' = [chat EXCEPT !.phase = "done", !.err = inputs.err]
                /\ chatAgent' = [chatAgent EXCEPT !.state = state1, !.added = added1]
           ELSE IF answer.raises
           THEN /\ chat' = [chat EXCEPT !.phase = "done", !.err = Err("Backend", {}),
                                        !.calls = @ + 1, !.sent = inputs.value]
                /\ chatAgent' = [chatAgent EXCEPT !.state = state1, !.added = added1]
           ELSE /\ chat' = [chat EXCEPT !.phase = IF resp.tool_calls # <<>> THEN "tools" ELSE "done",
                                        !.history = Append(@, resp),
                                        !.calls = @ + 1,
                                        !.sent = inputs.value,
                                        !.response = resp,
                                        !.respAt = Len(chat.history) + 1,
                                        !.respDepth = chat.depth,
                                        !.pending = resp.tool_calls]
                /\ chatAgent' = [chatAgent EXCEPT
                                    !.state = IF p THEN UpdateState(state1, <<resp>>, chatAgent.maxState)
                                              ELSE state1,
                                    !.added = IF p THEN Append(added1, resp) ELSE added1]
    /\ UNCHANGED <<workflowVars, registry, toolOut, agentVars>>

\* one pass of the loop of _execute_tool_calls: the tool is invoked and its
\* outcome appended as a tool message
InvokeTool(inv) ==
    /\ chat.phase = "tools"
    /\ chat.pending # <<>>
    /\ LET name == Head(chat.pending)
           handled == HandleToolCall(name, inv)
           log == Append(chat.invoked, <<name, inv>>)
       IN  IF handled.raised
           THEN chat' = [chat EXCEPT !.phase = "done", !.err = Err("ToolError", {}), !.invoked = log]
           ELSE IF ToolMessage(handled).raised
           THEN chat' = [chat EXCEPT !.phase = "done", !.err = ToolMessage(handled).err, !.invoked = log]
           ELSE chat' = [chat EXCEPT !.history = Append(@, ToolMessage(handled).value),
                                     !.pending = Tail(@),
                                     !.invoked = log]
    /\ UNCHANGED <<workflowVars, chatAgent, registry, toolOut, agentVars>>

\* lines 222-226: after the last tool call, recurse one level deeper or return
AfterToolCalls ==
    /\ chat.phase = "tools"
    /\ chat.pending = <<>>
    /\ IF MayRecurse(chat.depth, chatAgent.maxDepth)
       THEN LET stripped == StripSystem(chatAgent.sys, chat.history)
            IN  chat' = [chat EXCEPT !.phase = "execute",
                                     !.history = stripped,
                                     !.respAt = @ - (Len(chat.history) - Len(stripped)),
                                     !.depth = @ + 1]
       ELSE chat' = [chat EXCEPT !.phase = "done"]
    /\ UNCHANGED <<workflowVars, chatAgent, registry, toolOut, agentVars>>

\* the caller has the history back, or the error
ChatReturn ==
    /\ chat.phase = "done"
    /\ chat' = ChatIdle
    /\ UNCHANGED <<workflowVars, chatAgent, registry, toolOut, agentVars>>

InitWorkflowIdle ==
    /\ nodes = <<>>
    /\ mutations = 0
    /\ pc = "idle"
    /\ winputs = EmptyMap
    /\ order = <<>>
    /\ idx = 1
    /\ results = EmptyMap
    /\ executed = <<>>
    /\ returned = None
    /\ outcome = Outcome("none", NoError)
    /\ nstate = NodeIdle

\* LLMChatAgent(name, llm_module, system_instructions, max_tool_call_depth)
InitChat ==
    /\ InitWorkflowIdle
    /\ chatAgent \in { [NoChatAgent EXCEPT !.sys = s, !.maxDepth = d] :
                        s \in SystemInstructions, d \in 0..MaxToolCallDepth }
    /\ chat = ChatIdle
    /\ registry = EmptyMap
    /\ toolOut = NoToolOut
    /\ InitAgentsIdle

NextChat ==
    \/ \E h \in InputHistories : ChatCall(h)
    \/ \E answer \in BackendAnswers : LLMCall(answer)
    \/ \E inv \in ToolInvocations : InvokeTool(inv)
    \/ AfterToolCalls
    \/ ChatReturn

SpecChat == InitChat /\ [][NextChat]_vars

\* the backend answers and the tools return: every step of the agent is taken
FairSpecChat == SpecChat /\ WF_vars(NextChat)

\* PersistentLLMChatAgent(..., max_state_size), its state empty
InitPersist ==
    /\ InitWorkflowIdle
    /\ chatAgent \in { [NoChatAgent EXCEPT !.persistent = TRUE, !.sys = s, !.maxDepth = d, !.maxState = n] :
                        s \in SystemInstructions, d \in 0..MaxToolCallDepth, n \in 0..MaxStateSize }
    /\ chat = ChatIdle
    /\ registry = EmptyMap
    /\ toolOut = NoToolOut
    /\ InitAgentsIdle

SpecPersist == InitPersist /\ [][NextChat]_vars

-----------------------------------------------------------------------------
(* ToolRegistry and Tool                                                    *)
(*                                                                         *)
(* A Tool is its qualified name, the declared type of each parameter       *)
(* (properties), the parameters without a default in the order of the      *)
(* signature (required), and the function it wraps.  The arguments of a    *)
(* tool call are a dict that validate_args iterates: a sequence of         *)
(* <<key, value>> pairs with distinct keys.  A value is its runtime type   *)
(* and its text.                                                           *)

MaxArgs == 2

Tool(name, properties, required, func) ==
    [name |-> name, properties |-> properties, required |-> required, func |-> func]

\* example_tool(param1: int, param2: str = "default"), a second function of the
\* same qualified name, and a function whose parameter has no annotation
Tools ==
    { Tool("example_tool", [k \in {"param1", "param2"} |-> IF k = "param1" THEN "int" ELSE "str"],
           <<"param1">>, "f1"),
      Tool("example_tool", [k \in {"param1"} |-> "str"], <<"param1">>, "f2"),
      Tool("untyped", [k \in {"x"} |-> "unknown"], <<"x">>, "f3") }

ToolNames == { "example_tool", "untyped", "non_existent_tool" }
ArgNames == { "param1", "param2", "x" }
Values ==
    { [type |-> "int", text |-> "42"], [type |-> "str", text |-> "hello"],
      [type |-> "str", text |-> "3"], [type |-> "bool", text |-> "True"] }

Arguments ==
    { a \in SeqsUpTo(ArgNames \X Values, MaxArgs) :
        \A i, j \in DOMAIN a : a[i][1] = a[j][1] => i = j }

ToolCall(name, arguments) == [name |-> name, arguments |-> arguments]
ToolCalls == { ToolCall(n, a) : n \in ToolNames, a \in Arguments }

ArgKeys(args) == { args[i][1] : i \in DOMAIN args }

\* isinstance(value, locate(type)): bool is a subclass of int; locate("unknown")
\* is None, and isinstance with None raises TypeError
IsInstance(value, type) ==
    CASE type = "int" -> Return(value.type \in {"int", "bool"})
      [] type = "str" -> Return(value.type = "str")
      [] OTHER -> Raise(Err("TypeError", {}))

\* Tool.validate_args: the first required parameter that is missing, else the
\* first argument that is not a parameter or is not of the declared type
ValidateArgs(tool, args) ==
    LET missing == { i \in DOMAIN tool.required : tool.required[i] \notin ArgKeys(args) }
        Bad(i) == \/ args[i][1] \notin DOMAIN tool.properties
                  \/ IsInstance(args[i][2], tool.properties[args[i][1]]).raised
                  \/ ~IsInstance(args[i][2], tool.properties[args[i][1]]).value
        bad == { i \in DOMAIN args : Bad(i) }
    IN  IF missing # {}
        THEN Err("MissingArgument", {tool.required[CHOOSE i \in missing : \A j \in missing : i <= j]})
        ELSE IF bad # {}
        THEN LET i == CHOOSE b \in bad : \A j \in bad : b <= j
             IN  IF args[i][1] \notin DOMAIN tool.properties
                 THEN Err("UnexpectedArgument", {args[i][1]})
                 ELSE IF IsInstance(args[i][2], tool.properties[args[i][1]]).raised
                 THEN IsInstance(args[i][2], tool.properties[args[i][1]]).err
                 ELSE Err("TypeMismatch", {args[i][1]})
        ELSE NoError

ToolResult(raised, err, called, func) ==
    [raised |-> raised, err |-> err, called |-> called, func |-> func]

\* invoke that calls the function with whatever arguments it is given
ToolInvokeUnvalidated(tool, args) == ToolResult(FALSE, NoError, TRUE, tool.func)

\* Tool.invoke: validate_args, then the function
ToolInvoke(tool, args) ==
    IF ValidateArgs(tool, args) # NoError
    THEN ToolResult(TRUE, ValidateArgs(tool, args), FALSE, "none")
    ELSE ToolResult(FALSE, NoError, TRUE, tool.func)

\* ToolRegistry.invoke_tool_call
InvokeToolCallResult(reg, tool_call) ==
    IF tool_call.name \notin DOMAIN reg
    THEN ToolResult(TRUE, Err("NotRegistered", {tool_call.name}), FALSE, "none")
    ELSE ToolInvoke(reg[tool_call.name], tool_call.arguments)

\* register_tool without the test of line 235: the later tool replaces the earlier
RegisterToolOverwrites(reg, tool) == Return((tool.name :> tool) @@ reg)

\* ToolRegistry.register_tool
RegisterToolResult(reg, tool) ==
    IF tool.name \in DOMAIN reg
    THEN Raise(Err("AlreadyRegistered", {tool.name}))
    ELSE Return((tool.name :> tool) @@ reg)

\* registry.register_tool(tool)
RegisterTool(tool) ==
    /\ LET r == RegisterToolResult(registry, tool)
       IN  /\ registry' = IF r.raised THEN registry ELSE r.value
           /\ toolOut' = [op |-> "register_tool", tool |-> tool, raised |-> r.raised, err |-> r.err]
    /\ UNCHANGED <<workflowVars, chatAgent, chat, agentVars>>

\* registry.invoke_tool_call(tool_call)
InvokeToolCall(tool_call) ==
    /\ toolOut' = [op |-> "invoke_tool_call", tool_call |-> tool_call,
                   out |-> InvokeToolCallResult(registry, tool_call)]
    /\ UNCHANGED <<workflowVars, chatAgent, chat, registry, agentVars>>

\* registry.clear_registry()
ClearRegistry ==
    /\ registry' = EmptyMap
    /\ toolOut' = [op |-> "clear_registry"]
    /\ UNCHANGED <<workflowVars, chatAgent, chat, agentVars>>

InitTools ==
    /\ InitWorkflowIdle
    /\ chatAgent = NoChatAgent
    /\ chat = ChatIdle
    /\ registry = EmptyMap
    /\ toolOut = NoToolOut
    /\ InitAgentsIdle

NextTools ==
    \/ \E tool \in Tools : RegisterTool(tool)
    \/ \E tool_call \in ToolCalls : InvokeToolCall(tool_call)
    \/ ClearRegistry

SpecTools == InitTools /\ [][NextTools]_vars

-----------------------------------------------------------------------------
(* AgentRegistry, and call_agent: the retrying call of a registered agent *)

MaxRetries == 1

AgentNames == {"A", "B"}

\* an agent instance, with whether it has an input_schema and an output_schema (None if not)
Agent(id, input_schema, output_schema) ==
    [id |-> id, input_schema |-> input_schema, output_schema |-> output_schema]

Agents == {Agent("a1", TRUE, TRUE), Agent("a2", FALSE, FALSE), Agent("a3", TRUE, FALSE)}

\* None, as AgentRegistry.get_agent gives it for a name that is not registered
NoAgent == Agent("None", FALSE, FALSE)

\* register_agent without the test of line 44: the later instance replaces the earlier
RegisterAgentOverwrites(reg, name, agent_instance) == Return((name :> agent_instance) @@ reg)

\* AgentRegistry.register_agent
RegisterAgentResult(reg, name, agent_instance) ==
    IF name \in DOMAIN reg
    THEN Raise(Err("ValueError", {name}))
    ELSE Return((name :> agent_instance) @@ reg)

\* AgentRegistry.get_agent
GetAgent(reg, name) == IF name \in DOMAIN reg THEN reg[name] ELSE NoAgent

otherAgentVars == <<callAgent, delegation, tracker, plan, runs>>

\* AgentRegistry.register_agent(name, agent_instance)
RegisterAgent(name, agent_instance) ==
    /\ LET r == RegisterAgentResult(agentRegistry, name, agent_instance)
       IN  /\ agentRegistry' = IF r.raised THEN agentRegistry ELSE r.value
           /\ agentOut' = [op |-> "register_agent", name |-> name, agent |-> agent_instance,
                           raised |-> r.raised, err |-> r.err]
    /\ UNCHANGED <<workflowVars, chatAgent, chat, registry, toolOut, otherAgentVars>>

\* AgentRegistry.unregister_agent: pop the name if it is registered
Unregistered(reg, name) == [n \in DOMAIN reg \ {name} |-> reg[n]]

\* Agent(name=name, ...) by a caller: __init__ sets self.name and registers self; before
\* keeps the registry as it was. The instance is a new object, none now registered.
ConstructAgent(name, agent_instance) ==
    /\ \A n \in DOMAIN agentRegistry : agentRegistry[n] # agent_instance
    /\ LET r == RegisterAgentResult(agentRegistry, name, agent_instance)
       IN  /\ agentRegistry' = IF r.raised THEN agentRegistry ELSE r.value
           /\ agentOut' = [op |-> "construct", name |-> name, agent |-> agent_instance,
                           raised |-> r.raised, err |-> r.err, before |-> agentRegistry,
                           finalised |-> FALSE]
    /\ UNCHANGED <<workflowVars, chatAgent, chat, registry, toolOut, otherAgentVars>>

\* The instance whose __init__ raised is referenced by nothing once the exception has been
\* handled: the interpreter finalises it, and __del__ runs cleanup, which unregisters
\* self.name.
FinaliseAgent ==
    /\ agentOut.op = "construct"
    /\ agentOut.raised
    /\ ~agentOut.finalised
    /\ agentRegistry' = Unregistered(agentRegistry, agentOut.name)
    /\ agentOut' = [agentOut EXCEPT !.finalised = TRUE]
    /\ UNCHANGED <<workflowVars, chatAgent, chat, registry, toolOut, otherAgentVars>>

\* AgentRegistry.unregister_agent(name)
UnregisterAgent(name) ==
    /\ agentRegistry' = Unregistered(agentRegistry, name)
    /\ agentOut' = [op |-> "unregister_agent", name |-> name]
    /\ UNCHANGED <<workflowVars, chatAgent, chat, registry, toolOut, otherAgentVars>>

\* AgentRegistry.clear_registry()
ClearAgentRegistry ==
    /\ agentRegistry' = EmptyMap
    /\ agentOut' = [op |-> "clear_registry"]
    /\ UNCHANGED <<workflowVars, chatAgent, chat, registry, toolOut, otherAgentVars>>

\* what a call gives back: an exception, or a value that came from the agent, from the
\* fallback, or from nowhere (None)
CallOut(raised, err, from, value) ==
    [raised |-> raised, err |-> err, from |-> from, value |-> value]

NoCallOut == CallOut(FALSE, NoError, "none", {})

\* the fields of an agent's OutputSchema, and the outputs an agent's execute can give:
\* a dict is modelled by its set of keys
OutputSchemaFields == {"result"}
Outputs == {{"result"}, {"result", "extra"}, {"other"}}

\* what one agent.execute does: raise, or return an output
AgentBehaviours ==
    {[ok |-> FALSE, output |-> {}]} \cup {[ok |-> TRUE, output |-> o] : o \in Outputs}

Fallbacks == {"none", "returns", "raises"}
FallbackValue == {"fallback"}

\* output_schema(**output).dict(): the fields of the schema, extra keys dropped
ValidatedDict(output) == output \cap OutputSchemaFields

\* One pass through the try block of the loop: whether the agent was invoked, whether
\* execute returned (ok), whether the block reached its return, and the value it returned.
\*   call_agent of tool_registry.py: agent.execute(messages=messages), then return result.
\*   AgentCallingWrapper.call_agent: validated_input.dict() (validated_input is None for
\*   an agent without input_schema: AttributeError before the call), agent.execute,
\*   agent.validate_output(result) (ValidationError if a required field is missing),
\*   validated_output.dict() (validated_output is None without output_schema).
Attempt(wrapper, agent, behaviour) ==
    IF wrapper /\ ~agent.input_schema
    THEN [invoked |-> FALSE, succeeded |-> FALSE, ok |-> FALSE, result |-> {}]
    ELSE IF ~behaviour.ok
    THEN [invoked |-> TRUE, succeeded |-> FALSE, ok |-> FALSE, result |-> {}]
    ELSE IF ~wrapper
    THEN [invoked |-> TRUE, succeeded |-> TRUE, ok |-> TRUE, result |-> behaviour.output]
    ELSE IF ~agent.output_schema \/ ~(OutputSchemaFields \subseteq behaviour.output)
    THEN [invoked |-> TRUE, succeeded |-> FALSE, ok |-> TRUE, result |-> behaviour.output]
    ELSE [invoked |-> TRUE, succeeded |-> TRUE, ok |-> TRUE,
          result |-> ValidatedDict(behaviour.output)]

\* if retries > max_retries, after retries += 1
Exhausted(retries, max_retries) == retries > max_retries

\* call_agent(agent_name, ..., max_retries, fallback) up to the loop
CallAgentStart(wrapper, agent_name, valid_input, max_retries, fallback) ==
    /\ callAgent.phase \in {"none", "done"}
    /\ LET agent == GetAgent(agentRegistry, agent_name)
           c == [phase |-> "running", wrapper |-> wrapper, agent_name |-> agent_name,
                 agent |-> agent, max_retries |-> max_retries, fallback |-> fallback,
                 retries |-> 0, log |-> <<>>, fallbackCalls |-> 0, out |-> NoCallOut]
       IN  callAgent' =
             IF agent = NoAgent
             THEN [c EXCEPT !.phase = "done",
                            !.out = CallOut(TRUE, Err("ValueError", {agent_name}), "none", {})]
             ELSE IF wrapper /\ agent.input_schema /\ ~valid_input
             THEN [c EXCEPT !.phase = "done",
                            !.out = CallOut(TRUE, Err("ValueError", {"input"}), "none", {})]
             ELSE IF ~(0 <= max_retries)
             THEN [c EXCEPT !.phase = "done"]
             ELSE c
    /\ UNCHANGED <<workflowVars, chatAgent, chat, registry, toolOut, agentRegistry, agentOut,
                   delegation, tracker, plan, runs>>

\* one iteration of the while loop, up to the fallback call
CallAgentAttempt(behaviour) ==
    /\ callAgent.phase = "running"
    /\ LET a == Attempt(callAgent.wrapper, callAgent.agent, behaviour)
           c == [callAgent EXCEPT !.log = Append(@, a)]
       IN  callAgent' =
             IF a.succeeded
             THEN [c EXCEPT !.phase = "done", !.out = CallOut(FALSE, NoError, "agent", a.result)]
             ELSE IF ~Exhausted(callAgent.retries + 1, callAgent.max_retries)
             THEN [c EXCEPT !.retries = @ + 1]
             ELSE IF callAgent.fallback # "none"
             THEN [c EXCEPT !.retries = @ + 1, !.phase = "fallback"]
             ELSE [c EXCEPT !.retries = @ + 1, !.phase = "done",
                            !.out = CallOut(TRUE, Err("RuntimeError", {callAgent.agent_name}),
                                            "none", {})]
    /\ UNCHANGED <<workflowVars, chatAgent, chat, registry, toolOut, agentRegistry, agentOut,
                   delegation, tracker, plan, runs>>

\* fallback(messages), and the return of its result
CallAgentFallback ==
    /\ callAgent.phase = "fallback"
    /\ callAgent' =
         [callAgent EXCEPT !.phase = "done", !.fallbackCalls = @ + 1,
                           !.out = IF callAgent.fallback = "returns"
                                   THEN CallOut(FALSE, NoError, "fallback", FallbackValue)
                                   ELSE CallOut(TRUE, Err("FallbackError", {}), "fallback", {})]
    /\ UNCHANGED <<workflowVars, chatAgent, chat, registry, toolOut, agentRegistry, agentOut,
                   delegation, tracker, plan, runs>>

InitAgents ==
    /\ InitWorkflowIdle
    /\ chatAgent = NoChatAgent
    /\ chat = ChatIdle
    /\ registry = EmptyMap
    /\ toolOut = NoToolOut
    /\ InitAgentsIdle

NextAgents ==
    \/ \E name \in AgentNames, agent_instance \in Agents : RegisterAgent(name, agent_instance)
    \/ \E name \in AgentNames : UnregisterAgent(name)
    \/ ClearAgentRegistry
    \/ \E name \in AgentNames, agent_instance \in Agents : ConstructAgent(name, agent_instance)
    \/ FinaliseAgent
    \/ \E wrapper \in BOOLEAN, agent_name \in AgentNames, valid_input \in BOOLEAN,
          max_retries \in -1..MaxRetries, fallback \in Fallbacks :
            CallAgentStart(wrapper, agent_name, valid_input, max_retries, fallback)
    \/ \E behaviour \in AgentBehaviours : CallAgentAttempt(behaviour)
    \/ CallAgentFallback

SpecAgents == InitAgents /\ [][NextAgents]_vars

-----------------------------------------------------------------------------
(* DelegationAgent.decide_and_delegate and CoordinationAgent.coordinate_agents *)

\* the agent given to DelegationAgent as generic_agent
GenericAgent == Agent("generic", FALSE, FALSE)

\* the histories a caller passes, and the message with the catalog of agents
Histories ==
    {<<Message("user", <<"q">>, <<>>)>>,
     <<Message("system", <<"sys">>, <<>>), Message("user", <<"q">>, <<>>)>>}

CatalogPrompt == Message("system", <<"catalog">>, <<>>)

\* What the decision call and parse_json_with_recovery give: the backend raises, the parser
\* raises, the parser gives an empty value ({} or None), or it gives an object, with or
\* without "agent_name" ("none" if without) and with or without "error".
Decision(kind, agent_name, error) == [kind |-> kind, agent_name |-> agent_name, error |-> error]

Decisions ==
    {Decision("backend_raises", "none", FALSE),
     Decision("parse_raises", "none", FALSE),
     Decision("empty", "none", FALSE),
     Decision("object", "none", FALSE),
     Decision("object", "none", TRUE),
     Decision("object", "A", TRUE)}
    \cup {Decision("object", n, FALSE) : n \in AgentNames \cup {"generic_agent"}}

\* what one execute of a delegate or of the generic agent does: return an output, or raise
Execution(raises, output) == [raises |-> raises, output |-> output]

Executions ==
    {Execution("none", "o1"), Execution("none", "o2"),
     Execution("ValueError", "none"), Execution("RuntimeError", "none")}

\* one entry of the log of agent.execute calls: the agent, the messages, what it did
Executed(agent, messages, execution) ==
    [agent |-> agent, messages |-> messages, execution |-> execution]

\* what a decision call gives its caller: the executions it made, and its result
Dispatch(log, raised, err, value) == [log |-> log, raised |-> raised, err |-> err, value |-> value]

AgentOutput(output) == [kind |-> "output", output |-> output, errors |-> <<>>]
NoValue == [kind |-> "none", output |-> "none", errors |-> <<>>]

\* the decision response that coordinate_agents gives back, content emptied, with its errors
ErrorResponse(errors) == [kind |-> "response", output |-> "none", errors |-> errors]

NoDispatch == Dispatch(<<>>, FALSE, NoError, NoValue)

\* a dispatch that hands the agents the messages that went to the decision call
DispatchedMessagesWithCatalog(initial_messages, messages) == messages

\* the messages the chosen agent or the generic agent is executed on: initial_messages
DispatchedMessages(initial_messages, messages) == initial_messages

\* an except clause that catches nothing
CaughtNever(kind) == FALSE

\* except (json.JSONDecodeError, KeyError, ValueError)
Caught(kind) == kind \in {"JSONDecodeError", "KeyError", "ValueError"}

\* DelegationAgent.decide_and_delegate(messages) up to its first agent.execute: d is what
\* the decision call gave. The result names the execute that comes next: of the chosen
\* agent or of the generic agent inside the try block ("delegate", "generic_in_try"), of
\* the generic agent in the except clause ("generic"), or none ("ready": the call ended).
DecideResult(reg, delegations, d) ==
    LET Handle(k) == IF Caught(k)
                     THEN [phase |-> "generic", agent |-> GenericAgent, out |-> NoDispatch]
                     ELSE [phase |-> "ready", agent |-> NoAgent,
                           out |-> Dispatch(<<>>, TRUE, Err(k, {}), NoValue)]
    IN  IF d.kind = "backend_raises"
        THEN [phase |-> "ready", agent |-> NoAgent,
              out |-> Dispatch(<<>>, TRUE, Err("BackendError", {}), NoValue)]
        ELSE IF d.kind = "parse_raises" THEN Handle("JSONDecodeError")
        ELSE IF d.kind = "empty" \/ d.agent_name = "none"
        THEN [phase |-> "generic_in_try", agent |-> GenericAgent, out |-> NoDispatch]
        ELSE IF d.agent_name \notin delegations THEN Handle("KeyError")
        ELSE IF GetAgent(reg, d.agent_name) = NoAgent THEN Handle("ValueError")
        ELSE [phase |-> "delegate", agent |-> GetAgent(reg, d.agent_name), out |-> NoDispatch]

\* lines 137-138: messages.messages = [user_prompt_message] + messages.messages, an
\* assignment to the MessageHistory object that the caller passed
WithCatalogPrompt(messages) == <<CatalogPrompt>> \o messages

\* CoordinationAgent.coordinate_agents(messages): d is what the decision call gave. Every
\* exception of the try block is caught and reported in response.errors. The dispatch of
\* line 163 passes messages= to a call_agent whose parameter is named inputs: TypeError.
CoordinateAgentsResult(initial_messages, d) ==
    IF d.kind = "backend_raises" THEN Dispatch(<<>>, TRUE, Err("BackendError", {}), NoValue)
    ELSE IF d.kind = "parse_raises"
    THEN Dispatch(<<>>, FALSE, NoError, ErrorResponse(<<"ValueError">>))
    ELSE IF d.kind = "empty"
    THEN Dispatch(<<>>, FALSE, NoError, ErrorResponse(<<"ValueError">>))
    ELSE IF d.error \/ d.agent_name = "none"
    THEN Dispatch(<<>>, FALSE, NoError,
                  ErrorResponse((IF d.error THEN <<"error">> ELSE <<>>)
                                \o (IF d.agent_name = "none" THEN <<"agent_name">> ELSE <<>>)))
    ELSE Dispatch(<<>>, FALSE, NoError, ErrorResponse(<<"TypeError">>))

\* AgentDelegationRegistry.add_delegation
AddDelegationResult(reg, delegations, agent_name) ==
    IF agent_name \in delegations THEN Raise(Err("ValueError", {agent_name}))
    ELSE IF GetAgent(reg, agent_name) = NoAgent THEN Raise(Err("ValueError", {agent_name}))
    ELSE Return(delegations \cup {agent_name})

\* a DelegationAgent after __init__: an empty delegation registry, no call made; found is
\* what AgentRegistry.get_agent gave for the name of the decision when the call was made
DelegationReady ==
    [phase |-> "ready", delegations |-> {}, op |-> "none", messages |-> <<>>, history |-> <<>>,
     decision |-> Decision("empty", "none", FALSE), found |-> NoAgent, agent |-> NoAgent,
     out |-> NoDispatch]

delegationUnchanged ==
    UNCHANGED <<workflowVars, chatAgent, chat, registry, toolOut, agentRegistry, agentOut,
                callAgent, tracker, plan, runs>>

\* delegation_agent.delegate_task(task_description, agent_name)
DelegateTask(agent_name) ==
    /\ delegation.phase = "ready"
    /\ LET r == AddDelegationResult(agentRegistry, delegation.delegations, agent_name)
       IN  delegation' =
             [delegation EXCEPT !.delegations = IF r.raised THEN @ ELSE r.value,
                                !.op = "delegate_task",
                                !.messages = <<>>,
                                !.history = <<>>,
                                !.decision = Decision("empty", agent_name, FALSE),
                                !.found = NoAgent,
                                !.agent = NoAgent,
                                !.out = Dispatch(<<>>, r.raised, r.err, NoValue)]
    /\ delegationUnchanged

\* delegation_agent.decide_and_delegate(messages), up to its first agent.execute
DecideAndDelegate(messages, d) ==
    /\ delegation.phase = "ready"
    /\ LET r == DecideResult(agentRegistry, delegation.delegations, d)
       IN  delegation' =
             [delegation EXCEPT !.phase = r.phase,
                                !.op = "decide_and_delegate",
                                !.messages = messages,
                                !.history = messages,
                                !.decision = d,
                                !.found = GetAgent(agentRegistry, d.agent_name),
                                !.agent = r.agent,
                                !.out = r.out]
    /\ delegationUnchanged

\* agent.execute(messages=...) of the chosen agent (line 192) or of the generic agent (lines
\* 165 and 175), and what decide_and_delegate does with its result or its exception
ExecuteAgent(e) ==
    /\ delegation.phase \in {"delegate", "generic_in_try", "generic"}
    /\ LET msgs == DispatchedMessages(delegation.messages,
                                      <<CatalogPrompt>> \o delegation.messages)
           log == Append(delegation.out.log, Executed(delegation.agent, msgs, e))
       IN  delegation' =
             IF e.raises = "none"
             THEN [delegation EXCEPT !.phase = "ready",
                                     !.out = Dispatch(log, FALSE, NoError, AgentOutput(e.output))]
             ELSE IF delegation.phase # "generic" /\ Caught(e.raises)
             THEN [delegation EXCEPT !.phase = "generic", !.agent = GenericAgent,
                                     !.out = Dispatch(log, FALSE, NoError, NoValue)]
             ELSE [delegation EXCEPT !.phase = "ready",
                                     !.out = Dispatch(log, TRUE, Err(e.raises, {}), NoValue)]
    /\ delegationUnchanged

\* coordination_agent.coordinate_agents(messages)
CoordinateAgents(messages, d) ==
    /\ delegation.phase = "ready"
    /\ delegation' =
         [delegation EXCEPT !.op = "coordinate_agents",
                            !.messages = messages,
                            !.history = WithCatalogPrompt(messages),
                            !.decision = d,
                            !.found = GetAgent(agentRegistry, d.agent_name),
                            !.agent = NoAgent,
                            !.out = CoordinateAgentsResult(messages, d)]
    /\ delegationUnchanged

InitDelegation ==
    /\ InitWorkflowIdle
    /\ chatAgent = NoChatAgent
    /\ chat = ChatIdle
    /\ registry = EmptyMap
    /\ toolOut = NoToolOut
    /\ agentRegistry = EmptyMap
    /\ agentOut = NoAgentOut
    /\ callAgent = CallIdle
    /\ delegation = DelegationReady
    /\ tracker = TrackerIdle
    /\ plan = PlanIdle
    /\ runs = NoRuns

NextDelegation ==
    \/ \E name \in AgentNames, agent_instance \in Agents : RegisterAgent(name, agent_instance)
    \/ \E name \in AgentNames : UnregisterAgent(name)
    \/ \E agent_name \in AgentNames : DelegateTask(agent_name)
    \/ \E messages \in Histories, d \in Decisions : DecideAndDelegate(messages, d)
    \/ \E e \in Executions : ExecuteAgent(e)
    \/ \E messages \in Histories, d \in Decisions : CoordinateAgents(messages, d)

SpecDelegation == InitDelegation /\ [][NextDelegation]_vars

-----------------------------------------------------------------------------
(* WorkflowProgressTracker *)

\* the node names a tracker is built with, and a name that is not one of them
TrackerNodes == {"Node1", "Node2", "Node3"}
TrackerNames == TrackerNodes \cup {"InvalidNode"}

\* the last call on the tracker and how it ended
TrackerCall(op, node_name, raised, err) ==
    [op |-> op, node_name |-> node_name, raised |-> raised, err |-> err]

\* WorkflowProgressTracker(node_names): a time is "None", a "timestamp" (time.time()) or a
\* "duration" (a difference of two timestamps)
TrackerNew(node_names) ==
    [phase |-> "ready",
     node_status |-> [n \in node_names |-> "Pending"],
     node_times |-> [n \in node_names |-> "None"],
     start_time |-> "None",
     last |-> TrackerCall("none", "none", FALSE, NoError)]

\* WorkflowProgressTracker.mark_node_running
MarkNodeRunningResult(t, node_name) ==
    IF node_name \notin DOMAIN t.node_status
    THEN [t EXCEPT !.last = TrackerCall("mark_node_running", node_name, TRUE,
                                        Err("ValueError", {node_name}))]
    ELSE [t EXCEPT !.node_status[node_name] = "Running",
                   !.node_times[node_name] = "timestamp",
                   !.last = TrackerCall("mark_node_running", node_name, FALSE, NoError)]

\* mark_node_completed without the test of line 47
MarkNodeCompletedUnchecked(t, node_name) ==
    IF node_name \notin DOMAIN t.node_status
    THEN [t EXCEPT !.last = TrackerCall("mark_node_completed", node_name, TRUE,
                                        Err("ValueError", {node_name}))]
    ELSE [t EXCEPT !.node_status[node_name] = "Completed",
                   !.node_times[node_name] = "duration",
                   !.last = TrackerCall("mark_node_completed", node_name, FALSE, NoError)]

\* WorkflowProgressTracker.mark_node_completed
MarkNodeCompletedResult(t, node_name) ==
    IF node_name \notin DOMAIN t.node_status
    THEN [t EXCEPT !.last = TrackerCall("mark_node_completed", node_name, TRUE,
                                        Err("ValueError", {node_name}))]
    ELSE IF t.node_status[node_name] # "Running"
    THEN [t EXCEPT !.last = TrackerCall("mark_node_completed", node_name, TRUE,
                                        Err("ValueError", {node_name}))]
    ELSE [t EXCEPT !.node_status[node_name] = "Completed",
                   !.node_times[node_name] = "duration",
                   !.last = TrackerCall("mark_node_completed", node_name, FALSE, NoError)]

trackerUnchanged ==
    UNCHANGED <<workflowVars, chatAgent, chat, registry, toolOut, agentRegistry, agentOut,
                callAgent, delegation, plan, runs>>

\* tracker.start_workflow()
StartWorkflow ==
    /\ tracker.phase = "ready"
    /\ tracker' = [tracker EXCEPT !.start_time = "timestamp",
                                  !.last = TrackerCall("start_workflow", "none", FALSE, NoError)]
    /\ trackerUnchanged

\* tracker.mark_node_running(node_name)
MarkNodeRunning(node_name) ==
    /\ tracker.phase = "ready"
    /\ tracker' = MarkNodeRunningResult(tracker, node_name)
    /\ trackerUnchanged

\* tracker.mark_node_completed(node_name)
MarkNodeCompleted(node_name) ==
    /\ tracker.phase = "ready"
    /\ tracker' = MarkNodeCompletedResult(tracker, node_name)
    /\ trackerUnchanged

\* tracker.get_progress(): reads only
GetProgress ==
    /\ tracker.phase = "ready"
    /\ tracker' = [tracker EXCEPT !.last = TrackerCall("get_progress", "none", FALSE, NoError)]
    /\ trackerUnchanged

InitTracker ==
    /\ InitWorkflowIdle
    /\ chatAgent = NoChatAgent
    /\ chat = ChatIdle
    /\ registry = EmptyMap
    /\ toolOut = NoToolOut
    /\ agentRegistry = EmptyMap
    /\ agentOut = NoAgentOut
    /\ callAgent = CallIdle
    /\ delegation = DelegationIdle
    /\ tracker = TrackerNew(TrackerNodes)
    /\ plan = PlanIdle
    /\ runs = NoRuns

NextTracker ==
    \/ StartWorkflow
    \/ \E node_name \in TrackerNames : MarkNodeRunning(node_name)
    \/ \E node_name \in TrackerNames : MarkNodeCompleted(node_name)
    \/ GetProgress

SpecTracker == InitTracker /\ [][NextTracker]_vars

-----------------------------------------------------------------------------
(* PlanningModule.execute_plan *)

MaxSteps == 3

\* a PlanStep: its action and its error recovery strategy
PlanStep(action, on_error) == [action |-> action, on_error |-> on_error]

PlanSteps ==
    {PlanStep(a, o) : a \in {"tool_call", "agent_call"}, o \in {"retry", "skip", "terminate"}}

Plans == SeqsUpTo(PlanSteps, MaxSteps)

\* the entries of results: what execute_action returned for the step at position i, or the
\* record of a skipped step with step.dict()
ActionResult(i) == [status |-> "success", position |-> i]
SkippedEntry(step) == [status |-> "skipped", step |-> step]

\* an except clause that goes on to the next step whatever the strategy
AfterFailureContinues(on_error) == "continue"

\* the except clause of execute_plan: record a skipped entry, raise, or neither
AfterFailure(on_error) ==
    IF on_error = "skip" THEN "record"
    ELSE IF on_error = "terminate" THEN "raise"
    ELSE "continue"

planUnchanged ==
    UNCHANGED <<workflowVars, chatAgent, chat, registry, toolOut, agentRegistry, agentOut,
                callAgent, delegation, tracker, runs>>

\* the end of the for loop once position idx is past the last step: return results
PlanAt(p, position) ==
    IF position > Len(p.steps)
    THEN [p EXCEPT !.phase = "done", !.idx = position, !.out = Return(p.results)]
    ELSE [p EXCEPT !.idx = position]

\* planning_module.execute_plan(plan), up to the first execute_action
ExecutePlan(steps) ==
    /\ plan.phase \in {"none", "done"}
    /\ plan' = PlanAt([phase |-> "running", steps |-> steps, idx |-> 1, results |-> <<>>,
                       executed |-> <<>>, out |-> Return(<<>>)], 1)
    /\ planUnchanged

\* one iteration of the loop: execute_action(step) returns (ok) or raises
ExecuteAction(ok) ==
    /\ plan.phase = "running"
    /\ LET step == plan.steps[plan.idx]
           p == [plan EXCEPT !.executed = Append(@, [position |-> plan.idx, ok |-> ok])]
       IN  plan' =
             IF ok
             THEN PlanAt([p EXCEPT !.results = Append(@, ActionResult(plan.idx))], plan.idx + 1)
             ELSE IF AfterFailure(step.on_error) = "record"
             THEN PlanAt([p EXCEPT !.results = Append(@, SkippedEntry(step))], plan.idx + 1)
             ELSE IF AfterFailure(step.on_error) = "raise"
             THEN [p EXCEPT !.phase = "done", !.out = Raise(Err("RuntimeError", {}))]
             ELSE PlanAt(p, plan.idx + 1)
    /\ planUnchanged

InitPlan ==
    /\ InitWorkflowIdle
    /\ chatAgent = NoChatAgent
    /\ chat = ChatIdle
    /\ registry = EmptyMap
    /\ toolOut = NoToolOut
    /\ InitAgentsIdle

NextPlan ==
    \/ \E steps \in Plans : ExecutePlan(steps)
    \/ \E ok \in BOOLEAN : ExecuteAction(ok)

SpecPlan == InitPlan /\ [][NextPlan]_vars

-----------------------------------------------------------------------------
(* Two calls of execute on one workflow object, their steps interleaved *)

RunIds == {1, 2}

\* the inputs argument of each call: the two callers pass different messages
RunInputs == <<[k \in {"messages"} |-> <<"x">>], [k \in {"messages"} |-> <<"y">>]>>

\* the workflows the calls run on, each built with add_node: a chain of two nodes, and three
\* nodes of which the third takes its inputs from the other two
ChainGraph ==
    AddNodeResult(AddNodeResult(<<>>, "A", <<>>).value, "B", << <<"messages", "A">> >>).value
JoinGraph ==
    AddNodeResult(ChainGraph, "C", << <<"messages", "B">>, <<"extra", "A">> >>).value
RunGraphs == {ChainGraph, JoinGraph}

\* the locals of a call that has not begun
RunIdle ==
    [pc |-> "idle", inputs |-> EmptyMap, order |-> <<>>, idx |-> 1, results |-> EmptyMap,
     calls |-> {}, err |-> NoError, returned |-> None]

\* the number of agent calls that the calls of execute in progress have made, all together
Clock(rs) == Cardinality(rs[1].calls) + Cardinality(rs[2].calls)

\* a results map that is an attribute of the workflow object: every call reads and writes
\* the one map
ResultsOnWorkflow(rs, r) == rs[1].results @@ rs[2].results

\* line 212: results = {} is a local of the call, so each call has a map of its own
ResultsOf(rs, r) == rs[r].results

runsUnchanged ==
    UNCHANGED <<workflowVars, chatAgent, chat, registry, toolOut, agentRegistry, agentOut,
                callAgent, delegation, tracker, plan>>

\* workflow.execute(inputs) of call r, up to the head of its loop
RunExecute(r) ==
    /\ runs[r].pc = "idle"
    /\ LET e == ExecutePrologue(nodes)
       IN  runs' = [runs EXCEPT ![r] =
                      IF e # NoError
                      THEN [RunIdle EXCEPT !.pc = "done", !.inputs = RunInputs[r], !.err = e]
                      ELSE [RunIdle EXCEPT !.pc = "running", !.inputs = RunInputs[r],
                                           !.order = DetermineExecutionOrder(nodes).value]]
    /\ runsUnchanged

\* one iteration of the loop of call r: results[node_name] = node.execute(results, inputs)
RunExecNode(r, agent) ==
    /\ runs[r].pc = "running"
    /\ runs[r].idx <= Len(runs[r].order)
    /\ LET n == runs[r].order[runs[r].idx]
           res == ResultsOf(runs, r)
           x == NodeExecute(NodeOf(nodes, n), MockAgentSig, res, runs[r].inputs, agent)
           shared == IF agent.inplace THEN SharedWithAgent(NodeOf(nodes, n), res) ELSE {}
           call == [node |-> n, args |-> x.args, value |-> x.value, step |-> runs[r].idx,
                    at |-> Clock(runs) + 1]
       IN  runs' = [runs EXCEPT ![r] =
                      IF x.raised
                      THEN [@ EXCEPT !.pc = "done", !.err = x.err]
                      ELSE [@ EXCEPT !.results = (n :> x.value) @@
                                        [s \in DOMAIN res |-> IF s \in shared THEN x.value
                                                              ELSE res[s]],
                                     !.calls = @ \cup {call},
                                     !.idx = @ + 1]]
    /\ runsUnchanged

\* the loop of call r is over: return results
RunReturn(r) ==
    /\ runs[r].pc = "running"
    /\ runs[r].idx > Len(runs[r].order)
    /\ runs' = [runs EXCEPT ![r] = [@ EXCEPT !.pc = "done",
                                            !.returned = [ok |-> TRUE,
                                                          value |-> runs[r].results]]]
    /\ runsUnchanged

\* the caller of call r goes on; the locals of the finished call are gone
RunFinish(r) ==
    /\ runs[r].pc = "done"
    /\ runs' = [runs EXCEPT ![r] = RunIdle]
    /\ runsUnchanged

InitRuns ==
    /\ nodes \in RunGraphs
    /\ mutations = 0
    /\ pc = "idle"
    /\ winputs = EmptyMap
    /\ order = <<>>
    /\ idx = 1
    /\ results = EmptyMap
    /\ executed = <<>>
    /\ returned = None
    /\ outcome = Outcome("none", NoError)
    /\ nstate = NodeIdle
    /\ chatAgent = NoChatAgent
    /\ chat = ChatIdle
    /\ registry = EmptyMap
    /\ toolOut = NoToolOut
    /\ agentRegistry = EmptyMap
    /\ agentOut = NoAgentOut
    /\ callAgent = CallIdle
    /\ delegation = DelegationIdle
    /\ tracker = TrackerIdle
    /\ plan = PlanIdle
    /\ runs = [r \in RunIds |-> RunIdle]

NextRuns ==
    \/ \E r \in RunIds : RunExecute(r)
    \/ \E r \in RunIds, agent \in AgentOutcomes : RunExecNode(r, agent)
    \/ \E r \in RunIds : RunReturn(r)
    \/ \E r \in RunIds : RunFinish(r)

SpecRuns == InitRuns /\ [][NextRuns]_vars

-----------------------------------------------------------------------------
(* Graph notions the properties are stated with *)

Edges(ns) ==
    { e \in Names(ns) \X Names(ns) : e[2] \in SourcesOf(NodeOf(ns, e[1]).inputs) }

RECURSIVE Closure(_, _, _)
Closure(R, N, k) ==
    IF k = 0
    THEN R
    ELSE Closure(R \cup { p \in N \X N : \E b \in N : <<p[1], b>> \in R /\ <<b, p[2]>> \in R },
                 N, k - 1)

Reach(ns) == Closure(Edges(ns), Names(ns), Len(ns))
OnCycle(ns, n) == <<n, n>> \in Reach(ns)
Cyclic(ns) == \E n \in Names(ns) : OnCycle(ns, n)
AllSourcesAreNodes(ns) == \A i \in DOMAIN ns : SourcesOf(ns[i].inputs) \subseteq Names(ns)
IsPermutationOf(seq, S) ==
    /\ Len(seq) = Cardinality(S)
    /\ { seq[i] : i \in DOMAIN seq } = S

-----------------------------------------------------------------------------
(* Properties *)

ParentsBefore(ns, seq) ==
    \A i \in DOMAIN seq :
        \A p \in SourcesOf(NodeOf(ns, seq[i]).inputs) :
            \E j \in 1..(i - 1) : seq[j] = p

\* C1: for every acyclic graph, whatever the insertion order of its nodes, the
\* list determine_execution_order returns holds every node once, each strictly
\* after every source node named in its inputs; and execute's loop runs over
\* that list.
C1_OrderAfterParents ==
    LET o == DetermineExecutionOrder(nodes)
    IN  /\ (nodes # <<>> /\ AllSourcesAreNodes(nodes)) => ~o.raised
        /\ (~Cyclic(nodes) /\ ~o.raised) =>
              /\ IsPermutationOf(o.value, Names(nodes))
              /\ ParentsBefore(nodes, o.value)
        /\ pc = "running" => order = o.value

\* an acyclic graph of three nodes whose first inserted node is not first in the order
C1_Witness ==
    /\ pc = "running"
    /\ Len(order) = 3
    /\ ~Cyclic(nodes)
    /\ order[1] # nodes[1].name
    /\ \E i \in DOMAIN nodes : Cardinality(SourcesOf(nodes[i].inputs)) = 2

\* C2: in one run of execute each node's execute is invoked at most once, and
\* only after each of its parents was executed, returned, and has its result
\* in the results map.
C2_OnceAfterParents ==
    \A i \in DOMAIN executed :
        /\ \A j \in DOMAIN executed : executed[j].node = executed[i].node => j = i
        /\ \A p \in SourcesOf(NodeOf(nodes, executed[i].node).inputs) :
              /\ \E j \in 1..(i - 1) : executed[j].node = p /\ ~executed[j].out.raised
              /\ p \in DOMAIN results

\* a run that executed a node after both of its parents
C2_Witness ==
    /\ Len(executed) = 3
    /\ Cardinality(SourcesOf(NodeOf(nodes, executed[3].node).inputs)) = 2
    /\ executed[1].node # nodes[1].name

\* C3 as stated: on any graph with a cycle _validate_dependencies, and so
\* execute, raises the circular-dependency error, naming a node on the cycle.
C3_Original ==
    Cyclic(nodes) =>
        /\ ValidateDependencies(nodes).kind = "Circular"
        /\ \A n \in ValidateDependencies(nodes).names : OnCycle(nodes, n)

\* C3 amended: on any graph with a cycle _validate_dependencies raises, and so
\* execute raises that error before any node runs and returns nothing; when
\* every input source is a node of the graph it is the circular-dependency
\* error, naming exactly one node, which lies on a cycle.
C3_CycleRaises ==
    Cyclic(nodes) =>
        LET e == ValidateDependencies(nodes)
        IN  /\ e # NoError
            /\ AllSourcesAreNodes(nodes) =>
                  /\ e.kind = "Circular"
                  /\ Cardinality(e.names) = 1
                  /\ \A n \in e.names : OnCycle(nodes, n)
            /\ pc # "running"
            /\ outcome.op = "execute" =>
                  /\ outcome.err = e
                  /\ executed = <<>>
                  /\ ~returned.ok

\* execute was called on a cycle through all three nodes
C3_Witness ==
    /\ pc = "done"
    /\ Len(nodes) = 3
    /\ outcome = Outcome("execute", Err("Circular", {nodes[1].name}))
    /\ \A n \in Names(nodes) : OnCycle(nodes, n)

\* C4: the map execute returns has exactly the node names as keys, each holding
\* what that node's execute returned in this run; and execute of a workflow
\* that has nodes does return once every node's agent was called and succeeded.
C4_CompleteResults ==
    /\ returned.ok =>
          /\ DOMAIN returned.value = Names(nodes)
          /\ \A n \in Names(nodes) :
                \E i \in DOMAIN executed :
                    /\ executed[i].node = n
                    /\ ~executed[i].out.raised
                    /\ returned.value[n] = executed[i].out.value
    /\ ( /\ pc = "done"
         /\ outcome.op = "execute"
         /\ nodes # <<>>
         /\ Len(executed) = Len(nodes)
         /\ \A i \in DOMAIN executed : executed[i].out.called /\ ~executed[i].out.raised )
       => returned.ok

\* a run over three nodes has returned
C4_Witness ==
    /\ returned.ok
    /\ Len(nodes) = 3
    /\ \E n \in Names(nodes) : Len(returned.value[n]) = 4

\* C5 as stated: the error of the first failing node reaches the caller and
\* names that node, no later node runs, nothing is returned.
C5_Original ==
    \A i \in DOMAIN executed :
        executed[i].out.raised =>
            /\ i = Len(executed)
            /\ pc = "done"
            /\ ~returned.ok
            /\ outcome = Outcome("execute", executed[i].out.err)
            /\ executed[i].node \in outcome.err.names

\* C5 amended: the error of the first failing node reaches the caller as it
\* was raised, no later node runs, nothing is returned.
C5_FirstErrorPropagates ==
    \A i \in DOMAIN executed :
        executed[i].out.raised =>
            /\ i = Len(executed)
            /\ pc = "done"
            /\ ~returned.ok
            /\ outcome = Outcome("execute", executed[i].out.err)

\* the second of three nodes failed
C5_Witness ==
    /\ Len(order) = 3
    /\ Len(executed) = 2
    /\ executed[2].out.raised
    /\ pc = "done"

\* C6: an add_node call that raises leaves the node map as it was, and one that
\* does not raise appended a node whose name was not in the map and whose
\* sources all were: so a call with a name already present, or with a source
\* that is not yet a member, raises and changes nothing.
C6_AddNodeRejects ==
    [][ outcome'.op = "add_node" =>
          IF outcome'.err # NoError
          THEN nodes' = nodes
          ELSE /\ Len(nodes') = Len(nodes) + 1
               /\ SubSeq(nodes', 1, Len(nodes)) = nodes
               /\ nodes'[Len(nodes')].name \notin Names(nodes)
               /\ SourcesOf(nodes'[Len(nodes')].inputs) \subseteq Names(nodes) ]_vars

\* add_node was refused for a duplicate name on a workflow of two nodes
C6_Witness ==
    /\ Len(nodes) = 2
    /\ outcome = Outcome("add_node", Err("Duplicate", {nodes[2].name}))

\* C7: as long as nodes only came in through add_node, every input source of
\* every node is a node added earlier or workflow_input, and there is no cycle.
C7_AddNodeKeepsDag ==
    mutations = 0 =>
        /\ \A i \in DOMAIN nodes :
              \A src \in SourcesOf(nodes[i].inputs) :
                  src = WorkflowInput \/ \E j \in 1..(i - 1) : nodes[j].name = src
        /\ ~Cyclic(nodes)

\* three nodes added, the last with two parents, and then a refused call
C7_Witness ==
    /\ mutations = 0
    /\ Len(nodes) = 3
    /\ Cardinality(SourcesOf(nodes[3].inputs)) = 2
    /\ outcome.op = "add_node"
    /\ outcome.err.kind = "Duplicate"

\* C8 as stated: neither add_node nor execute's validation rejects
\* workflow_input as a source that does not exist.
C8_Original ==
    ~( /\ outcome.op \in {"add_node", "execute"}
       /\ outcome.err.kind \in {"ParentMissing", "InputMissing"}
       /\ WorkflowInput \in outcome.err.names )

\* C9: when a declared input's source has no entry in the results map,
\* AgentNode.execute raises the KeyError of _resolve_inputs and the agent is
\* not called.
C9_MissingDependency ==
    ( /\ nstate.phase = "done"
      /\ \E src \in SourcesOf(nstate.node.inputs) : src \notin DOMAIN nstate.results )
    => /\ nstate.out.raised
       /\ nstate.out.err.kind = "Unresolved"
       /\ nstate.out.err.names \subseteq SourcesOf(nstate.node.inputs) \ DOMAIN nstate.results
       /\ ~nstate.out.called

\* of two declared inputs the second has no result, and every required parameter is at hand
C9_Witness ==
    /\ nstate.phase = "done"
    /\ Len(nstate.node.inputs) = 2
    /\ nstate.node.inputs[1][2] \in DOMAIN nstate.results
    /\ nstate.node.inputs[2][2] \notin DOMAIN nstate.results
    /\ nstate.sig.required \subseteq DOMAIN nstate.winputs

\* C10: a key that is both a declared input and a key of the workflow inputs
\* reaches the agent with the parent's result, not the workflow value.
C10_ResolvedWins ==
    ( nstate.phase = "done" /\ nstate.out.called ) =>
        \A i \in DOMAIN nstate.node.inputs :
            LET k == nstate.node.inputs[i][1]
            IN  k \in DOMAIN nstate.out.args =>
                    nstate.out.args[k] = nstate.results[nstate.node.inputs[i][2]]

\* the agent was called with a key that the workflow inputs hold with another value
C10_Witness ==
    /\ nstate.phase = "done"
    /\ nstate.out.called
    /\ \E i \in DOMAIN nstate.node.inputs :
          LET k == nstate.node.inputs[i][1]
          IN  /\ k \in DOMAIN nstate.out.args
              /\ k \in DOMAIN nstate.winputs
              /\ nstate.winputs[k] # nstate.out.args[k]

\* C11: when the sources of a node all have a result, AgentNode.execute either
\* raises the missing-required-parameter error without calling the agent, when a
\* parameter of the agent's execute without a default is not a key of the merged
\* inputs, or calls the agent with exactly the merged inputs whose key is one of
\* the parameters of the agent's execute.
C11_FilteredArguments ==
    (nstate.phase = "done" /\ SourcesOf(nstate.node.inputs) \subseteq DOMAIN nstate.results) =>
        LET keys == { nstate.node.inputs[i][1] : i \in DOMAIN nstate.node.inputs }
            merged == keys \cup DOMAIN nstate.winputs
            params == { nstate.sig.params[i] : i \in DOMAIN nstate.sig.params }
            out == nstate.out
        IN  IF nstate.sig.required \subseteq merged
            THEN /\ out.called
                 /\ DOMAIN out.args = merged \cap params
            ELSE /\ ~out.called
                 /\ out.raised
                 /\ out.err.kind = "RequiredMissing"

\* a call that drops a merged input the agent has no parameter for
C11_Witness ==
    /\ nstate.phase = "done"
    /\ SourcesOf(nstate.node.inputs) \subseteq DOMAIN nstate.results
    /\ nstate.out.called
    /\ "extra" \in DOMAIN nstate.winputs
    /\ "extra" \notin DOMAIN nstate.out.args
    /\ "messages" \in DOMAIN nstate.out.args

\* C12: a result, once stored in the results map, is not changed by the execution
\* of a later node: at every point of a run, and at its end, the result of every
\* node that has returned is the value that was stored when it returned, also
\* when the agents append in place to the messages they are given.
C12_StoredResultsKept ==
    (pc \in {"running", "done"}) =>
        \A i \in DOMAIN executed :
            ~executed[i].out.raised =>
                /\ executed[i].node \in DOMAIN results
                /\ results[executed[i].node] = executed[i].out.value

\* the chain A -> B -> C has run to its end, each agent having added its mark to
\* the messages of the node before it
C12_Witness ==
    /\ pc = "done"
    /\ returned.ok
    /\ Len(nodes) = 3
    /\ nodes[1] = [name |-> "A", inputs |-> <<>>]
    /\ nodes[2] = [name |-> "B", inputs |-> << <<"messages", "A">> >>]
    /\ nodes[3] = [name |-> "C", inputs |-> << <<"messages", "B">> >>]
    /\ returned.value["A"] = <<"x", "A">>
    /\ returned.value["B"] = <<"x", "A", "B">>
    /\ returned.value["C"] = <<"x", "A", "B", "C">>

\* C13: in one top-level execute, a backend response without tool_calls ends the
\* loop at once, a response with tool_calls received at depth max_tool_call_depth
\* ends it after its tool calls, and a further backend call is made only after a
\* response with tool_calls that was received below max_tool_call_depth.
C13_LoopEnds ==
    [][ /\ (chat'.calls = chat.calls + 1 /\ chat'.err = NoError /\ chat'.response.tool_calls = <<>>)
            => chat'.phase = "done"
        /\ (chat.phase = "tools" /\ chat.pending = <<>> /\ chat.depth = chatAgent.maxDepth)
            => chat'.phase = "done"
        /\ (chat.calls >= 1 /\ chat'.calls = chat.calls + 1)
            => (chat.response.tool_calls # <<>> /\ chat.respDepth < chatAgent.maxDepth) ]_vars

\* a response with tool calls received at depth max_tool_call_depth = 1: the call
\* has returned after two backend calls
C13_Witness ==
    /\ chat.phase = "done"
    /\ chat.err = NoError
    /\ chatAgent.maxDepth = 1
    /\ chat.respDepth = 1
    /\ chat.response.tool_calls # <<>>
    /\ chat.calls = 2

\* C14: one top-level execute makes at most max_tool_call_depth + 1 backend calls,
\* whatever the backend answers, and comes to its end.
C14_BoundedCalls ==
    /\ [](chat.calls <= chatAgent.maxDepth + 1)
    /\ (chat.phase = "execute") ~> (chat.phase = "done")

\* a backend that answers every request with tool calls: the call has returned
\* after max_tool_call_depth + 1 = 2 backend calls
C14_Witness ==
    /\ chat.phase = "done"
    /\ chat.err = NoError
    /\ chatAgent.maxDepth = 1
    /\ chat.calls = 2
    /\ Len(chat.invoked) = 4

\* C15: a tool invocation that raises does not end the call: its errors are
\* appended to the history as a tool message, no error is raised to the caller,
\* and the loop goes on with the next tool call of the response, as it does
\* after a tool call that returned.
C15_ToolFailureKept ==
    [][ (/\ chat.phase = "tools"
         /\ chat.pending # <<>>
         /\ Len(chat'.invoked) = Len(chat.invoked) + 1
         /\ chat'.invoked[Len(chat'.invoked)][2] \in Raising)
        => (/\ chat'.phase = "tools"
            /\ chat'.err = NoError
            /\ chat'.pending = Tail(chat.pending)
            /\ chat'.depth = chat.depth
            /\ chat'.history = Append(chat.history,
                                      Message("tool", chat'.invoked[Len(chat'.invoked)], <<>>))) ]_vars

\* the first of two tool calls raised, the second was invoked and returned, and
\* the loop went on to a second backend call and to its end
C15_Witness ==
    /\ chat.phase = "done"
    /\ chat.err = NoError
    /\ chat.calls = 2
    /\ Len(chat.invoked) = 2
    /\ chat.invoked[1][2] \in Raising
    /\ chat.invoked[2][2] = "value"

C17_Original ==
    (chatAgent.sys # <<>>) =>
        Cardinality({ i \in DOMAIN chat.sent :
                        chat.sent[i] = Message("system", chatAgent.sys, <<>>) }) <= 1

\* C18: with max_state_size = n > 0 the state of a persistent agent holds at most
\* n messages, and they are the last n of all the messages added to it so far, in
\* the order they were added.
C18_StateIsLastN ==
    (chatAgent.persistent /\ chatAgent.maxState > 0) =>
        LET n == chatAgent.maxState
            all == chatAgent.added
            from == IF Len(all) > n THEN Len(all) - n ELSE 0
        IN  /\ Len(chatAgent.state) <= n
            /\ Len(chatAgent.state) = Len(all) - from
            /\ \A i \in DOMAIN chatAgent.state : chatAgent.state[i] = all[from + i]

\* more messages were added than the state may hold, the first of them is gone
C18_Witness ==
    /\ chatAgent.persistent
    /\ chatAgent.maxState = 2
    /\ Len(chatAgent.added) > 2
    /\ Len(chatAgent.state) = 2
    /\ chatAgent.added[1] \notin { chatAgent.state[i] : i \in DOMAIN chatAgent.state }

\* C19: register_tool with a tool whose qualified name is already in the registry
\* raises, and the registry is as before: the tool registered first is still the
\* one under that name.
C19_DuplicateRejected ==
    [][ (toolOut'.op = "register_tool" /\ toolOut'.tool.name \in DOMAIN registry)
        => (/\ toolOut'.raised
            /\ toolOut'.err.kind = "AlreadyRegistered"
            /\ registry' = registry) ]_vars

\* the second function of the name example_tool was refused, the first is registered
C19_Witness ==
    /\ toolOut.op = "register_tool"
    /\ toolOut.raised
    /\ toolOut.tool.func = "f2"
    /\ "example_tool" \in DOMAIN registry
    /\ registry["example_tool"].func = "f1"

\* C20: invoke_tool_call on a registered tool does not call the function when it
\* raises; it raises the missing-argument error when a required parameter is not
\* among the arguments, and the type error when every required parameter is
\* there, every argument is a parameter, and an argument of a parameter declared
\* int or str is not an instance of that type.
C20_ValidatedBeforeCall ==
    (toolOut.op = "invoke_tool_call" /\ toolOut.tool_call.name \in DOMAIN registry) =>
        LET t == registry[toolOut.tool_call.name]
            args == toolOut.tool_call.arguments
            out == toolOut.out
            missing == \E i \in DOMAIN t.required : t.required[i] \notin ArgKeys(args)
            undeclared == \E k \in ArgKeys(args) : k \notin DOMAIN t.properties
            mistyped == \E i \in DOMAIN args :
                           /\ args[i][1] \in DOMAIN t.properties
                           /\ \/ t.properties[args[i][1]] = "int" /\ args[i][2].type \notin {"int", "bool"}
                              \/ t.properties[args[i][1]] = "str" /\ args[i][2].type # "str"
        IN  /\ out.raised => ~out.called
            /\ missing => (out.raised /\ out.err.kind = "MissingArgument")
            /\ (~missing /\ ~undeclared /\ mistyped) => (out.raised /\ out.err.kind = "TypeMismatch")
            /\ (missing \/ undeclared \/ mistyped) => ~out.called

\* example_tool called with a string for its int parameter: the type error, and
\* the function has not run
C20_Witness ==
    /\ toolOut.op = "invoke_tool_call"
    /\ toolOut.tool_call = ToolCall("example_tool", << <<"param1", [type |-> "str", text |-> "hello"]>>,
                                                      <<"param2", [type |-> "str", text |-> "hello"]>> >>)
    /\ "example_tool" \in DOMAIN registry
    /\ registry["example_tool"].func = "f1"
    /\ toolOut.out.err.kind = "TypeMismatch"
    /\ ~toolOut.out.called

\* C21: invoke_tool_call on a registered tool whose arguments are all parameters,
\* none required one missing, with a numeric string for a parameter declared int
\* and every other argument of its declared type, calls the function and does
\* not raise.
C21_Original ==
    (toolOut.op = "invoke_tool_call" /\ toolOut.tool_call.name \in DOMAIN registry) =>
        LET t == registry[toolOut.tool_call.name]
            args == toolOut.tool_call.arguments
            Numeric(v) == v.type = "str" /\ v.text = "3"
            Fits(i) == /\ args[i][1] \in DOMAIN t.properties
                       /\ \/ t.properties[args[i][1]] = "int" /\ (args[i][2].type = "int" \/ Numeric(args[i][2]))
                          \/ t.properties[args[i][1]] = "str" /\ args[i][2].type = "str"
        IN  (/\ \A i \in DOMAIN t.required : t.required[i] \in ArgKeys(args)
             /\ \A i \in DOMAIN args : Fits(i)
             /\ \E i \in DOMAIN args : t.properties[args[i][1]] = "int" /\ Numeric(args[i][2]))
            => (toolOut.out.called /\ ~toolOut.out.raised)
-----------------------------------------------------------------------------
(* call_agent and the AgentRegistry *)

\* how many times a call_agent invoked agent.execute
RECURSIVE Invocations(_)
Invocations(log) ==
    IF log = <<>> THEN 0
    ELSE Invocations(SubSeq(log, 1, Len(log) - 1)) + (IF log[Len(log)].invoked THEN 1 ELSE 0)

\* a call_agent that reached its loop and has ended
CallEnded ==
    /\ callAgent.phase = "done"
    /\ callAgent.agent # NoAgent
    /\ callAgent.out.err.kind # "ValueError"

\* C22: for every max_retries >= 0, a call_agent whose agent fails on every attempt invokes
\* the agent exactly max_retries + 1 times; then with a fallback it calls the fallback
\* exactly once and returns its result, and without one it raises RuntimeError.
C22_Original ==
    (/\ CallEnded
     /\ callAgent.max_retries >= 0
     /\ \A i \in 1..Len(callAgent.log) : ~callAgent.log[i].ok)
    => /\ Invocations(callAgent.log) = callAgent.max_retries + 1
       /\ callAgent.fallback # "none" =>
            /\ callAgent.fallbackCalls = 1
            /\ callAgent.fallback = "returns" =>
                 callAgent.out = CallOut(FALSE, NoError, "fallback", FallbackValue)
       /\ callAgent.fallback = "none" =>
            /\ callAgent.fallbackCalls = 0
            /\ callAgent.out.raised
            /\ callAgent.out.err.kind = "RuntimeError"

\* the same, for call_agent of tool_registry.py alone
CallAgentRetriesToBound == (callAgent.phase # "none" /\ ~callAgent.wrapper) => C22_Original

\* the agent succeeded on attempt i: execute returned, with an output that fits the
\* agent's output schema where call_agent validates it against one
AgentSucceeded(i) ==
    /\ callAgent.log[i].ok
    /\ (callAgent.wrapper /\ callAgent.agent.output_schema)
         => OutputSchemaFields \subseteq callAgent.log[i].result

\* C23: call_agent stops at the first successful attempt: when the agent first succeeds on
\* attempt k <= max_retries + 1, the agent has been invoked exactly k times, the call
\* returns the result of that attempt (as its output schema renders it, where there is
\* one), and the fallback is never called.
C23_Original ==
    (/\ callAgent.phase # "none"
     /\ \E k \in 1..Len(callAgent.log) : AgentSucceeded(k))
    => LET k == CHOOSE j \in 1..Len(callAgent.log) :
                    AgentSucceeded(j) /\ \A i \in 1..(j - 1) : ~AgentSucceeded(i)
       IN  /\ callAgent.phase = "done"
           /\ Len(callAgent.log) = k
           /\ Invocations(callAgent.log) = k
           /\ callAgent.out.from = "agent"
           /\ ~callAgent.out.raised
           /\ callAgent.out.value \in {callAgent.log[k].result,
                                       ValidatedDict(callAgent.log[k].result)}
           /\ callAgent.fallbackCalls = 0

\* the same, for call_agent of tool_registry.py alone
CallAgentStopsAtSuccess == (callAgent.phase # "none" /\ ~callAgent.wrapper) => C23_Original

\* C27: register_agent with a name that is already registered raises and leaves the
\* registry as it was: get_agent for the name still gives the instance registered first.
C27_DuplicateAgentRejected ==
    [][ (/\ agentOut' # agentOut
         /\ agentOut'.op = "register_agent"
         /\ agentOut'.name \in DOMAIN agentRegistry)
        => (/\ agentOut'.raised
            /\ agentOut'.err.kind = "ValueError"
            /\ agentRegistry' = agentRegistry
            /\ GetAgent(agentRegistry', agentOut'.name)
                 = GetAgent(agentRegistry, agentOut'.name)) ]_vars

\* a second instance was offered under a name that is taken, and the first is still there
C27_Witness ==
    /\ agentOut.op = "register_agent"
    /\ agentOut.raised
    /\ agentOut.name \in DOMAIN agentRegistry
    /\ GetAgent(agentRegistry, agentOut.name) # agentOut.agent
-----------------------------------------------------------------------------
(* The decision layer *)

\* a decide_and_delegate that has ended
DecideEnded == delegation.op = "decide_and_delegate" /\ delegation.phase = "ready"

\* the decision names an agent that is in the delegation registry
NamesDelegate ==
    /\ delegation.decision.kind = "object"
    /\ delegation.decision.agent_name \in delegation.delegations

\* the first execute of the call was of the agent registered under the decision's name, on
\* the caller's history; if it returned, nothing else was executed and its output is the
\* result of the call
DelegateExecuted ==
    /\ delegation.out.log # <<>>
    /\ delegation.out.log[1].agent = delegation.found
    /\ delegation.out.log[1].messages = delegation.messages
    /\ delegation.out.log[1].execution.raises = "none" =>
         delegation.out = Dispatch(<<delegation.out.log[1]>>, FALSE, NoError,
                                   AgentOutput(delegation.out.log[1].execution.output))

\* C24 as stated: when the decision names an agent that is in the delegation registry,
\* decide_and_delegate executes that agent on the caller's original history and returns
\* its output unchanged.
C24_Original == (DecideEnded /\ NamesDelegate) => DelegateExecuted

\* C24: when the decision names an agent that is in the delegation registry and is still
\* registered in the AgentRegistry, decide_and_delegate executes that agent on the caller's
\* original history, without the catalog prompt or the decision response; if that execute
\* returns, its output is returned unchanged and no other agent is executed.
C24_DelegatesToNamed ==
    (DecideEnded /\ NamesDelegate /\ delegation.found # NoAgent) => DelegateExecuted

\* agent a1, delegated and registered under "A", was executed on a two-message history and
\* its output o2 came back
C24_Witness ==
    /\ DecideEnded
    /\ NamesDelegate
    /\ delegation.decision.agent_name = "A"
    /\ delegation.found = Agent("a1", TRUE, TRUE)
    /\ Len(delegation.messages) = 2
    /\ delegation.out = Dispatch(<<Executed(delegation.found, delegation.messages,
                                            Execution("none", "o2"))>>,
                                 FALSE, NoError, AgentOutput("o2"))

\* the decision names generic_agent or an agent that is not in the delegation registry,
\* lacks agent_name, or is unparsable or empty
NoDelegateDecided ==
    \/ delegation.decision.kind \in {"parse_raises", "empty"}
    \/ /\ delegation.decision.kind = "object"
       /\ delegation.decision.agent_name \notin delegation.delegations

\* C25: when the decision names generic_agent or an agent that is not in the delegation
\* registry, lacks agent_name, or is unparsable or empty, decide_and_delegate executes the
\* generic agent, and no other, on the caller's original history and returns its result
\* (or raises its exception).
C25_GenericFallback ==
    (DecideEnded /\ NoDelegateDecided) =>
        LET log == delegation.out.log
        IN  /\ log # <<>>
            /\ \A i \in 1..Len(log) : /\ log[i].agent = GenericAgent
                                      /\ log[i].messages = delegation.messages
            /\ IF log[Len(log)].execution.raises = "none"
               THEN delegation.out = Dispatch(log, FALSE, NoError,
                                              AgentOutput(log[Len(log)].execution.output))
               ELSE delegation.out = Dispatch(log, TRUE,
                                              Err(log[Len(log)].execution.raises, {}), NoValue)

\* the decision named "B", registered but never delegated to, and the generic agent's
\* output came back
C25_Witness ==
    /\ DecideEnded
    /\ delegation.decision = Decision("object", "B", FALSE)
    /\ "B" \notin delegation.delegations
    /\ delegation.found # NoAgent
    /\ delegation.out = Dispatch(<<Executed(GenericAgent, delegation.messages,
                                            Execution("none", "o1"))>>,
                                 FALSE, NoError, AgentOutput("o1"))

\* a coordinate_agents that has ended with a decision that is unparsable or empty, carries
\* an error field, or lacks agent_name
CoordinationFailed ==
    /\ delegation.op = "coordinate_agents"
    /\ delegation.phase = "ready"
    /\ \/ delegation.decision.kind \in {"parse_raises", "empty"}
       \/ /\ delegation.decision.kind = "object"
          /\ delegation.decision.error \/ delegation.decision.agent_name = "none"

\* C26: in coordinate_agents a decision that is unparsable, empty, carries an error field
\* or lacks agent_name raises no exception: the generic agent is executed instead.
C26_Original ==
    CoordinationFailed =>
        /\ ~delegation.out.raised
        /\ delegation.out.log # <<>>
        /\ delegation.out.log[Len(delegation.out.log)].agent = GenericAgent

\* the part of C26 that the code keeps: such a decision raises no exception
CoordinationNeverRaises == CoordinationFailed => ~delegation.out.raised
-----------------------------------------------------------------------------
(* WorkflowProgressTracker *)

\* C28: a node becomes Completed only through mark_node_completed while its status is
\* Running; mark_node_completed on a node that is Pending or Completed, and
\* mark_node_running or mark_node_completed on a name that is not a node of the workflow,
\* raise ValueError and change no node's status.
C28_CompletedOnlyFromRunning ==
    [][ tracker' # tracker =>
          /\ \A n \in DOMAIN tracker.node_status :
               (tracker'.node_status[n] = "Completed" /\ tracker.node_status[n] # "Completed")
               => /\ tracker'.last = TrackerCall("mark_node_completed", n, FALSE, NoError)
                  /\ tracker.node_status[n] = "Running"
          /\ (/\ tracker'.last.op = "mark_node_completed"
              /\ tracker'.last.node_name \in DOMAIN tracker.node_status
              /\ tracker.node_status[tracker'.last.node_name] # "Running")
             => /\ tracker'.last.raised
                /\ tracker'.last.err.kind = "ValueError"
                /\ tracker'.node_status = tracker.node_status
          /\ (/\ tracker'.last.op \in {"mark_node_running", "mark_node_completed"}
              /\ tracker'.last.node_name \notin DOMAIN tracker.node_status)
             => /\ tracker'.last.raised
                /\ tracker'.last.err.kind = "ValueError"
                /\ tracker'.node_status = tracker.node_status ]_vars

\* Node1 was completed from Running, and a second mark_node_completed of it was refused
C28_Witness ==
    /\ tracker.phase = "ready"
    /\ tracker.node_status["Node1"] = "Completed"
    /\ tracker.node_status["Node2"] = "Pending"
    /\ tracker.last = TrackerCall("mark_node_completed", "Node1", TRUE,
                                  Err("ValueError", {"Node1"}))
-----------------------------------------------------------------------------
(* PlanningModule.execute_plan *)

\* the positions of the steps that failed with the given strategy
FailedWith(on_error) ==
    {i \in 1..Len(plan.executed) :
        ~plan.executed[i].ok /\ plan.steps[plan.executed[i].position].on_error = on_error}

\* C29: execute_plan executes the steps in plan order; a step that fails with on_error =
\* skip leaves a skipped entry for that step in results and the next step is executed, and
\* a step that fails with on_error = terminate makes execute_plan raise RuntimeError with
\* no later step executed.
C29_PlanOrderAndRecovery ==
    plan.phase \in {"running", "done"} =>
        /\ \A i \in 1..Len(plan.executed) : plan.executed[i].position = i
        /\ \A i \in FailedWith("skip") :
             /\ \E j \in 1..Len(plan.results) : plan.results[j] = SkippedEntry(plan.steps[i])
             /\ i < Len(plan.steps) =>
                  \/ Len(plan.executed) > i
                  \/ plan.phase = "running" /\ plan.idx = i + 1
        /\ Cardinality({j \in 1..Len(plan.results) : plan.results[j].status = "skipped"})
             = Cardinality(FailedWith("skip"))
        /\ \A i \in FailedWith("terminate") :
             /\ plan.phase = "done"
             /\ plan.out = Raise(Err("RuntimeError", {}))
             /\ Len(plan.executed) = i
        /\ (plan.phase = "done" /\ ~plan.out.raised) =>
             /\ Len(plan.executed) = Len(plan.steps)
             /\ plan.out.value = plan.results

\* a three-step plan whose first step failed and was skipped, whose second step succeeded,
\* and whose third step failed and terminated the plan
C29_Witness ==
    /\ plan.phase = "done"
    /\ Len(plan.steps) = 3
    /\ Len(plan.executed) = 3
    /\ plan.steps[1].on_error = "skip"
    /\ plan.steps[3].on_error = "terminate"
    /\ ~plan.executed[1].ok
    /\ plan.executed[2].ok
    /\ ~plan.executed[3].ok
    /\ plan.results = <<SkippedEntry(plan.steps[1]), ActionResult(2)>>
    /\ plan.out.raised
-----------------------------------------------------------------------------
(* Validation before execution *)

\* the graph has no node, a dependency cycle, or an input whose source is neither a node
\* nor the workflow input
ValidationMustFail(ns) ==
    \/ Len(ns) = 0
    \/ Cyclic(ns)
    \/ \E i \in DOMAIN ns : ~(SourcesOf(ns[i].inputs) \subseteq Names(ns) \cup {WorkflowInput})

\* C30: execute validates the dependencies and the input references before it invokes any
\* node: when the graph is empty, cyclic or names an unknown source, execute raises and no
\* node's agent has been executed; and any node that was executed was executed on a graph
\* that passed both validations.
C30_ValidationBeforeNodes ==
    (pc \in {"running", "done"} /\ outcome.op = "execute") =>
        /\ ValidationMustFail(nodes) =>
             /\ pc = "done"
             /\ outcome.err # NoError
             /\ executed = <<>>
             /\ results = EmptyMap
        /\ executed # <<>> =>
             /\ ValidateDependencies(nodes) = NoError
             /\ ValidateInputsAndOutputs(nodes) = NoError

\* execute of a two-node graph whose second node names a source that is not a node: the
\* call raised and nothing was executed
C30_Witness ==
    /\ pc = "done"
    /\ outcome.op = "execute"
    /\ Len(nodes) = 2
    /\ ~Cyclic(nodes)
    /\ ~(SourcesOf(nodes[2].inputs) \subseteq Names(nodes) \cup {WorkflowInput})
    /\ outcome.err # NoError
    /\ executed = <<>>
\* s is the beginning of t
IsPrefix(s, t) == Len(s) <= Len(t) /\ SubSeq(t, 1, Len(s)) = s

\* a top-level execute has returned its history to the caller
ChatReturned == chat.phase = "done" /\ chat.err = NoError

\* C31: when LLMChatAgent.execute returns, the caller's history is the history on
\* entry followed by the messages appended during the call: no message that was in
\* it on entry is gone or has moved.
C31_Original ==
    ChatReturned => IsPrefix(chat.entry, chat.history)
\* C32: when execute returns after a response with tool calls, that response was
\* received at depth max_tool_call_depth, each of its tool calls has been invoked, in
\* order, and the returned history ends with that response followed by one tool
\* message for each call: no assistant reply follows them.
C32_EndsWithToolMessages ==
    (ChatReturned /\ chat.response.tool_calls # <<>>) =>
        LET calls == chat.response.tool_calls
            k == Len(calls)
            done == Len(chat.invoked)
        IN  /\ chat.respDepth = chatAgent.maxDepth
            /\ chat.depth = chatAgent.maxDepth
            /\ chat.respAt >= 1
            /\ Len(chat.history) = chat.respAt + k
            /\ chat.history[chat.respAt] = chat.response
            /\ done >= k
            /\ \A j \in 1..k :
                  /\ chat.invoked[done - k + j][1] = calls[j]
                  /\ chat.history[chat.respAt + j].role = "tool"
                  /\ chat.history[chat.respAt + j].content[1] = calls[j]

\* the second response, received at depth max_tool_call_depth = 1, called t1 and t2:
\* the call returned a history that ends with their two tool messages
C32_Witness ==
    /\ ChatReturned
    /\ chatAgent.maxDepth = 1
    /\ chat.respDepth = 1
    /\ chat.calls = 2
    /\ chat.response.tool_calls = <<"t1", "t2">>
    /\ Len(chat.history) >= 3
    /\ chat.history[Len(chat.history)].role = "tool"
    /\ chat.history[Len(chat.history) - 1].role = "tool"
    /\ chat.history[Len(chat.history) - 2] = chat.response
\* the messages appended to the history during the call that has returned: one for
\* each backend response and one for each tool invocation
Exchanged == LastN(chat.history, chat.calls + Len(chat.invoked))

\* C34: when PersistentLLMChatAgent.execute returns, the state is the state before
\* the call, then the input messages, then the responses and tool messages of the
\* call in the order exchanged, each once, cut to the last max_state_size messages.
C34_Original ==
    (chatAgent.persistent /\ ChatReturned) =>
        chatAgent.state =
            UpdateState(chat.stateAtEntry, chat.entry \o Exchanged, chatAgent.maxState)

\* without tool calls the state is the state before, the input and the response
PersistentStateWithoutToolCalls ==
    (chatAgent.persistent /\ ChatReturned /\ chat.invoked = <<>>) =>
        chatAgent.state =
            UpdateState(chat.stateAtEntry, chat.entry \o Exchanged, chatAgent.maxState)
\* the agents that the call of decide_and_delegate executed
ExecutedAgents == {delegation.out.log[i].agent : i \in 1..Len(delegation.out.log)}

\* C35: in a decide_and_delegate call whose decision step returned, exactly one of the
\* selected delegate and the generic agent was executed: not both, not neither, also when
\* the delegate's execute raised.
C35_Original ==
    (DecideEnded /\ delegation.decision.kind # "backend_raises") =>
        Cardinality(ExecutedAgents) = 1

\* a call in which no execute raised ran exactly one agent, once
OneAgentWhenNoneRaises ==
    (DecideEnded /\ delegation.decision.kind # "backend_raises"
                 /\ \A i \in 1..Len(delegation.out.log) :
                       delegation.out.log[i].execution.raises = "none") =>
        Len(delegation.out.log) = 1
\* C36: after coordinate_agents the MessageHistory object the caller passed holds the
\* messages it held on entry, without the agent-catalog prompt, and a selected agent was
\* executed on the history without that prompt.
C36_Original ==
    (delegation.op = "coordinate_agents") =>
        /\ delegation.history = delegation.messages
        /\ \A i \in 1..Len(delegation.out.log) :
              delegation.out.log[i].messages = delegation.messages
\* C37: _validate_dependencies raises the circular-dependency error on no acyclic graph,
\* and it accepts every acyclic graph that has nodes and whose sources are all nodes of
\* it, also when a node is reachable from another by several paths or lists the same
\* source for two inputs; execute then does not end with that error.
C37_AcceptsDags ==
    ~Cyclic(nodes) =>
        /\ ValidateDependencies(nodes).kind # "Circular"
        /\ (Len(nodes) > 0 /\ AllSourcesAreNodes(nodes)) => ValidateDependencies(nodes) = NoError
        /\ outcome.op = "execute" => outcome.err.kind # "Circular"

\* execute passed validation on a graph whose second node lists the first for both of
\* its inputs and whose third node is reachable from the first directly and over the second
C37_Witness ==
    /\ outcome = Outcome("execute", NoError)
    /\ pc \in {"running", "done"}
    /\ Len(nodes) = 3
    /\ nodes[1].inputs = <<>>
    /\ Len(nodes[2].inputs) = 2
    /\ SourcesOf(nodes[2].inputs) = {nodes[1].name}
    /\ SourcesOf(nodes[3].inputs) = {nodes[1].name, nodes[2].name}
    /\ ~Cyclic(nodes)
\* C39: when execute_plan returns, its result has exactly one entry for each step of the
\* plan, in step order, whether the steps that failed have on_error retry or skip: the
\* entry at the position of a step that succeeded is the result of that step.
C39_Original ==
    (plan.phase = "done" /\ ~plan.out.raised) =>
        /\ Len(plan.out.value) = Len(plan.steps)
        /\ \A i \in 1..Len(plan.steps) :
              (i <= Len(plan.out.value) /\ plan.executed[i].ok) =>
                  plan.out.value[i] = ActionResult(i)

\* a plan none of whose failed steps has on_error = retry returns one entry for each step
OneEntryPerStepWithoutRetry ==
    (plan.phase = "done" /\ ~plan.out.raised /\ FailedWith("retry") = {}) =>
        /\ Len(plan.out.value) = Len(plan.steps)
        /\ \A i \in 1..Len(plan.steps) :
              plan.out.value[i] = IF plan.executed[i].ok THEN ActionResult(i)
                                  ELSE SkippedEntry(plan.steps[i])
\* the values that call r's own node executions have returned
Produced(r) == {c.value : c \in runs[r].calls}

\* C38: when two calls of execute on one workflow object are interleaved, every value in a
\* call's results map, and in the map it returns, was returned by a node execution of that
\* call for that node, and every argument a call handed to an agent came from that call's
\* inputs or from a value that call produced: no call reads or overwrites the other's results.
C38_RunsKeepApart ==
    \A r \in RunIds :
        /\ \A n \in DOMAIN runs[r].results :
              \E c \in runs[r].calls : c.node = n /\ c.value = runs[r].results[n]
        /\ \A c \in runs[r].calls :
              /\ c.node \in DOMAIN runs[r].results
              /\ \A k \in DOMAIN c.args :
                    \/ k \in DOMAIN RunInputs[r] /\ c.args[k] = RunInputs[r][k]
                    \/ \E d \in runs[r].calls : d.step < c.step /\ d.value = c.args[k]
              /\ Head(c.value) = Head(RunInputs[r]["messages"])
        /\ runs[r].returned.ok => runs[r].returned.value = runs[r].results
        /\ Produced(1) \cap Produced(2) = {}

\* both calls ran the three nodes and returned, their node executions taking turns
C38_Witness ==
    /\ Len(nodes) = 3
    /\ \A r \in RunIds :
          /\ runs[r].pc = "done"
          /\ runs[r].returned.ok
          /\ DOMAIN runs[r].returned.value = Names(nodes)
    /\ {c.at : c \in runs[1].calls} = {1, 3, 5}
    /\ {c.at : c \in runs[2].calls} = {2, 4, 6}
    /\ runs[1].returned.value["C"] = <<"x", "A", "B", "C">>
    /\ runs[2].returned.value["C"] = <<"y", "A", "B", "C">>
\* C33: constructing an Agent under a name that is already registered raises and leaves
\* the AgentRegistry as it was, the first agent still returned by get_agent for the name,
\* also after the instance that failed to register has been finalised.
C33_Original ==
    (agentOut.op = "construct" /\ agentOut.raised) =>
        /\ agentOut.err = Err("ValueError", {agentOut.name})
        /\ agentOut.name \in DOMAIN agentOut.before
        /\ agentRegistry = agentOut.before
        /\ GetAgent(agentRegistry, agentOut.name) = agentOut.before[agentOut.name]

\* until the failed instance is finalised the registry is as it was
ConstructDuplicateRaises ==
    (agentOut.op = "construct" /\ agentOut.raised /\ ~agentOut.finalised) =>
        /\ agentOut.err = Err("ValueError", {agentOut.name})
        /\ agentOut.name \in DOMAIN agentOut.before
        /\ agentRegistry = agentOut.before

====
